---------------------------- MODULE Spec2Model ----------------------------
(***************************************************************************)
(* The Scale Rebel: the admin API (OTP login, sessions, CRM routes).       *)
(*                                                                         *)
(* Time is counted in minutes.  A table is a set of rows (records); a      *)
(* SERIAL key is a counter.  A missing / null / empty JSON value is "".    *)
(* A handler is an operator from the current store, the request and the    *)
(* outcomes it cannot control (random values, the mail API, a failing      *)
(* store statement) to the store it leaves and the response it gives; the  *)
(* actions apply the handlers.                                             *)
(***************************************************************************)
EXTENDS Integers, Sequences, FiniteSets, Bags, TLC

VARIABLES
    now,             \* NOW() of the store, minutes
    ticks,           \* how often the clock was advanced
    otp_codes,       \* table otp_codes
    otp_seq,         \* its SERIAL
    admin_sessions,  \* table admin_sessions
    sess_seq,        \* its SERIAL
    outbox,          \* mails the mail API accepted while the last request was served
    issued,          \* bag of the times at which a code was stored
    redeemed,        \* bag of [id, code]: one copy per token returned for that row
    clients,         \* table clients
    client_seq,      \* its SERIAL
    inquiries,       \* table inquiries
    inquiry_seq,     \* its SERIAL
    inquiries_ddl,   \* which CREATE TABLE made inquiries: "absent", "fk", "plain"
    req,             \* the request answered last
    resp,            \* the response given last
    procs,           \* verify requests in flight (statement-level interleaving)
    gallery          \* the portfolio page in the visitor's browser

vars == <<now, ticks, otp_codes, otp_seq, admin_sessions, sess_seq, outbox,
          issued, redeemed, clients, client_seq, inquiries, inquiry_seq,
          inquiries_ddl, req, resp, procs, gallery>>

-----------------------------------------------------------------------------
(* Bounds of the model *)

MaxEvents == 4
RateMaxEvents == 7
FaultMaxEvents == 3
ConcMaxEvents == 3
NumProcs == 2
ApiMaxEvents == 5
CrmMaxEvents == 5

(* Program constants *)

OTP_TTL == 10
RATE_WINDOW == 15
RATE_MAX == 5
SESSION_TTL == 1440
EXPIRES_IN == 86400

-----------------------------------------------------------------------------
(* Values *)

ADMIN_EMAIL == "Admin@Site.com"

\* String.prototype.toLowerCase on the strings of the model
ToLowerCase(s) ==
    CASE s = "Admin@Site.com" -> "admin@site.com"
      [] s = "ADMIN@site.com" -> "admin@site.com"
      [] s = "Eve@Site.com" -> "eve@site.com"
      [] OTHER -> s

Emails == {"", "ADMIN@site.com", "Eve@Site.com"}
Codes == {"111111", "222222"}
Tokens == {<<"tokA">>, <<"tokB">>}
Jumps == {1, 10, 1439}

\* A string that is taken apart (an Authorization header, a token) is the
\* sequence of its pieces; "Bearer tokA" is <<"Bearer ", "tokA">>.
BEARER == "Bearer "
AuthHeaders ==
    {<<>>, <<"tokA">>} \cup {<<BEARER>> \o t : t \in Tokens}

\* authHeader.startsWith("Bearer ")
StartsWithBearer(h) == Len(h) > 0 /\ h[1] = BEARER

\* authHeader.replace("Bearer ", ""): the first occurrence is removed
RECURSIVE ReplaceBearer(_)
ReplaceBearer(h) ==
    IF h = <<>> THEN <<>>
    ELSE IF Head(h) = BEARER THEN Tail(h)
    ELSE <<Head(h)>> \o ReplaceBearer(Tail(h))

\* body.f of a parsed JSON body; undefined reads as ""
Get(body, f) == IF f \in DOMAIN body THEN body[f] ELSE ""

\* pathname.match(/<suffix>$/): the path ends with the segments of the pattern
EndsWith(path, suffix) ==
    /\ Len(path) >= Len(suffix)
    /\ SubSeq(path, Len(path) - Len(suffix) + 1, Len(path)) = suffix

-----------------------------------------------------------------------------
(* Responses *)

jsonResponse(data, status) == [status |-> status, body |-> data]
errorResponse(message, status) == jsonResponse([error |-> message], status)

NoReq == [method |-> "", path |-> <<>>, auth |-> <<>>, body |-> <<>>]
NoResp == [status |-> 0, body |-> <<>>]

\* the gallery page before its script has run
NoGallery ==
    [pc |-> "closed", data |-> <<>>, items |-> <<>>, i |-> 0, inFlight |-> {},
     imageCache |-> {}, cells |-> <<>>, totalLoaded |-> 0, loading |-> FALSE,
     btn |-> [disabled |-> FALSE, textContent |-> "Load more"], counter |-> <<>>]

\* The store as a handler sees it, and the response it is about to give.
Cur ==
    [now |-> now, otp |-> otp_codes, oseq |-> otp_seq,
     sess |-> admin_sessions, sseq |-> sess_seq,
     mail |-> {}, iss |-> issued, red |-> redeemed,
     cl |-> clients, cseq |-> client_seq, inq |-> inquiries, iseq |-> inquiry_seq,
     ddl |-> inquiries_ddl, resp |-> NoResp]

Reply(S, r) == [S EXCEPT !.resp = r]

-----------------------------------------------------------------------------
(* SQL statements of the OTP routes *)

\* DELETE FROM otp_codes WHERE expires_at < NOW()
DeleteExpiredOtps(codes, t) == {r \in codes : ~(r.expires_at < t)}

\* SELECT COUNT(*) FROM otp_codes WHERE email = .. AND created_at > NOW() - 15 min
CountRecent(codes, email, t) ==
    Cardinality({r \in codes : r.email = email /\ r.created_at > t - RATE_WINDOW})

\* INSERT INTO otp_codes (email, code, expires_at) VALUES (.., .., NOW() + 10 min)
InsertOtp(codes, id, email, code, t) ==
    codes \cup {[id |-> id, email |-> email, code |-> code,
                 expires_at |-> t + OTP_TTL, used |-> FALSE, created_at |-> t]}

\* mutant: a code is still taken at the instant it expires
MatchingOtps_AtExpiry(codes, email, code, t) ==
    {r \in codes : r.email = email /\ r.code = code /\ r.expires_at >= t /\ r.used = FALSE}

\* SELECT * FROM otp_codes WHERE email, code, expires_at > NOW(), used = FALSE
MatchingOtps(codes, email, code, t) ==
    {r \in codes : r.email = email /\ r.code = code /\ r.expires_at > t /\ r.used = FALSE}

\* mutant: only the code issued last to the email is looked at
FindValidOtp_LatestIssued(codes, email, code, t) ==
    {r \in MatchingOtps(codes, email, code, t) :
        \A q \in codes : q.email = email => q.created_at <= r.created_at}

\* ... ORDER BY created_at DESC LIMIT 1: the rows the statement may return
\* (rows of equal created_at come in either order)
FindValidOtp(codes, email, code, t) ==
    LET m == MatchingOtps(codes, email, code, t)
    IN {r \in m : \A q \in m : q.created_at <= r.created_at}

\* mutant: the UPDATE that marks the code used is lost
MarkUsed_Lost(codes, id) == codes

\* UPDATE otp_codes SET used = TRUE WHERE id = ..
MarkUsed(codes, id) ==
    {IF r.id = id THEN [r EXCEPT !.used = TRUE] ELSE r : r \in codes}

\* DELETE FROM admin_sessions WHERE expires_at < NOW()
DeleteExpiredSessions(sess, t) == {s \in sess : ~(s.expires_at < t)}

\* token TEXT NOT NULL UNIQUE: the insert is refused when the token is stored
TokenTaken(sess, token) == \E s \in sess : s.token = token

\* INSERT INTO admin_sessions (token, email, expires_at) VALUES (.., .., NOW() + 24 h)
InsertSession(sess, id, token, email, t) ==
    sess \cup {[id |-> id, token |-> token, email |-> email,
                expires_at |-> t + SESSION_TTL, created_at |-> t]}

\* mutant: a session is still valid at the instant it expires
ValidSessions_AtExpiry(sess, token, t) ==
    {s \in sess : s.token = token /\ s.expires_at >= t}

\* SELECT * FROM admin_sessions WHERE token = .. AND expires_at > NOW()
ValidSessions(sess, token, t) == {s \in sess : s.token = token /\ s.expires_at > t}

\* mutant: logout ends every session of the token's owner
DeleteSession_OfOwner(sess, token) ==
    {s \in sess : \A o \in sess : o.token = token => s.email # o.email}

\* DELETE FROM admin_sessions WHERE token = ..
DeleteSession(sess, token) == {s \in sess : s.token # token}

-----------------------------------------------------------------------------
(* What a request cannot control: the configuration, Math.random, the mail  *)
(* API and a store statement that throws.                                   *)
(*   admin : ADMIN_EMAIL, "" when not configured                            *)
(*   code  : the value generateOTP returns                                  *)
(*   token : the value generateSessionToken returns                         *)
(*   pick  : the row the SELECT .. LIMIT 1 of verifyOTP returns             *)
(*   mail  : "ok", "unconfigured" (RESEND_API_KEY or FROM_EMAIL missing),   *)
(*           "rejected" (the API answers not ok), "throws" (fetch throws)   *)
(*   confirm : "ok" or "throws", the confirmation mail of the contact form  *)
(*   fail  : the statement that throws: "none", "init" (initializeDatabase),*)
(*           "auth" (checkAuth), "s1".."s4" (n-th statement of the route)   *)
(****************************************************************************)

NoRow == [id |-> 0]
MailOutcomes == {"ok", "unconfigured", "rejected", "throws"}
FailPoints == {"none", "init", "auth", "s1", "s2", "s3", "s4"}

Quiet == [admin |-> ADMIN_EMAIL, code |-> "111111", token |-> <<"tokA">>,
          pick |-> NoRow, mail |-> "ok", confirm |-> "ok", fail |-> "none"]

\* mutant: the comparison with ADMIN_EMAIL is dropped
isAdminEmail_Anyone(email, admin) == TRUE

\* email.toLowerCase() === adminEmail.toLowerCase()
isAdminEmail(email, admin) == ToLowerCase(email) = ToLowerCase(admin)

\* the emails of the model that are, and are not, the admin's
AdminEmails == {e \in Emails : e # "" /\ isAdminEmail(e, ADMIN_EMAIL)}
OtherEmails == {e \in Emails : e # "" /\ ~isAdminEmail(e, ADMIN_EMAIL)}

\* mutant: the mail is dispatched first and the code stored only when it went
sendOTP_MailFirst(S, body, in) ==
    LET email == Get(body, "email")
        caught == errorResponse("Failed to send verification code", 500)
    IN
    IF email = "" THEN Reply(S, errorResponse("Email is required", 400))
    ELSE IF in.admin = "" THEN Reply(S, errorResponse("Admin login not configured", 500))
    ELSE IF ~isAdminEmail(email, in.admin)
    THEN Reply(S, jsonResponse([sent |-> TRUE], 200))
    ELSE IF in.fail = "s1" THEN Reply(S, caught)
    ELSE
    LET S1 == [S EXCEPT !.otp = DeleteExpiredOtps(S.otp, S.now)] IN
    IF in.fail = "s2" THEN Reply(S1, caught)
    ELSE IF CountRecent(S1.otp, ToLowerCase(email), S.now) >= RATE_MAX
    THEN Reply(S1, errorResponse("Too many attempts. Try again later.", 429))
    ELSE IF in.mail = "unconfigured"
    THEN Reply(S1, errorResponse("Email service not configured", 500))
    ELSE IF in.mail = "throws" \/ in.fail = "s3" THEN Reply(S1, caught)
    ELSE IF in.mail = "rejected"
    THEN Reply(S1, errorResponse("Failed to send verification email", 500))
    ELSE Reply([S1 EXCEPT
                  !.otp = InsertOtp(S1.otp, S1.oseq + 1, ToLowerCase(email), in.code, S.now),
                  !.oseq = S1.oseq + 1,
                  !.iss = S1.iss (+) SetToBag({S.now}),
                  !.mail = S1.mail \cup {[to |-> email, code |-> in.code]}],
               jsonResponse([sent |-> TRUE], 200))

\* POST /api/admin/otp/send
sendOTP(S, body, in) ==
    LET email == Get(body, "email")
        caught == errorResponse("Failed to send verification code", 500)
    IN
    IF email = "" THEN Reply(S, errorResponse("Email is required", 400))
    ELSE IF in.admin = "" THEN Reply(S, errorResponse("Admin login not configured", 500))
    ELSE IF ~isAdminEmail(email, in.admin)
    THEN Reply(S, jsonResponse([sent |-> TRUE], 200))
    ELSE IF in.fail = "s1" THEN Reply(S, caught)
    ELSE
    LET S1 == [S EXCEPT !.otp = DeleteExpiredOtps(S.otp, S.now)] IN
    IF in.fail = "s2" THEN Reply(S1, caught)
    ELSE IF CountRecent(S1.otp, ToLowerCase(email), S.now) >= RATE_MAX
    THEN Reply(S1, errorResponse("Too many attempts. Try again later.", 429))
    ELSE IF in.fail = "s3" THEN Reply(S1, caught)
    ELSE
    LET S2 == [S1 EXCEPT
                 !.otp = InsertOtp(S1.otp, S1.oseq + 1, ToLowerCase(email), in.code, S.now),
                 !.oseq = S1.oseq + 1,
                 !.iss = S1.iss (+) SetToBag({S.now})] IN
    IF in.mail = "unconfigured"
    THEN Reply(S2, errorResponse("Email service not configured", 500))
    ELSE IF in.mail = "throws" THEN Reply(S2, caught)
    ELSE IF in.mail = "rejected"
    THEN Reply(S2, errorResponse("Failed to send verification email", 500))
    ELSE Reply([S2 EXCEPT !.mail = S2.mail \cup {[to |-> email, code |-> in.code]}],
               jsonResponse([sent |-> TRUE], 200))

\* POST /api/admin/otp/verify
verifyOTP(S, body, in) ==
    LET email == Get(body, "email")
        code == Get(body, "code")
        caught == errorResponse("Verification failed", 500)
    IN
    IF email = "" \/ code = ""
    THEN Reply(S, errorResponse("Email and code are required", 400))
    ELSE IF in.admin = "" \/ ~isAdminEmail(email, in.admin)
    THEN Reply(S, errorResponse("Invalid code", 401))
    ELSE IF in.fail = "s1" THEN Reply(S, caught)
    ELSE
    LET found == FindValidOtp(S.otp, ToLowerCase(email), code, S.now) IN
    IF found = {} THEN Reply(S, errorResponse("Invalid or expired code", 401))
    ELSE
    LET row == IF in.pick \in found THEN in.pick ELSE CHOOSE r \in found : TRUE IN
    IF in.fail = "s2" THEN Reply(S, caught)
    ELSE
    LET S1 == [S EXCEPT !.otp = MarkUsed(S.otp, row.id)] IN
    IF in.fail = "s3" THEN Reply(S1, caught)
    ELSE
    LET S2 == [S1 EXCEPT !.sess = DeleteExpiredSessions(S1.sess, S.now)] IN
    IF in.fail = "s4" \/ TokenTaken(S2.sess, in.token) THEN Reply(S2, caught)
    ELSE
    Reply([S2 EXCEPT
             !.sess = InsertSession(S2.sess, S2.sseq + 1, in.token, ToLowerCase(email), S.now),
             !.sseq = S2.sseq + 1,
             !.red = S2.red (+) SetToBag({[id |-> row.id, code |-> row.code]})],
          jsonResponse([token |-> in.token, expiresIn |-> EXPIRES_IN], 200))

\* POST /api/admin/otp/logout
logout(S, auth, in) ==
    LET ok == jsonResponse([success |-> TRUE], 200) IN
    IF auth # <<>> /\ StartsWithBearer(auth)
    THEN IF in.fail = "s1" THEN Reply(S, ok)
         ELSE Reply([S EXCEPT !.sess = DeleteSession(S.sess, ReplaceBearer(auth))], ok)
    ELSE Reply(S, ok)

\* mutant: any Bearer header passes
checkAuth_AnyBearer(S, auth, in) == auth # <<>> /\ StartsWithBearer(auth)

\* checkAuth: whether the request carries the token of an unexpired session
checkAuth(S, auth, in) ==
    IF auth = <<>> \/ ~StartsWithBearer(auth) THEN FALSE
    ELSE IF in.fail = "auth" THEN FALSE
    ELSE ValidSessions(S.sess, ReplaceBearer(auth), S.now) # {}

-----------------------------------------------------------------------------
(* The CRM routes.  An id is an integer, 0 when missing (falsy); a NULL     *)
(* column is "" (text) or 0 (client_id).                                    *)

GetInt(body, f) == IF f \in DOMAIN body THEN body[f] ELSE 0

\* the columns updateClient may set, in its order
ClientFields ==
    <<"name", "email", "phone", "company", "status", "budget", "deadline", "cost", "notes">>

\* CREATE TABLE IF NOT EXISTS inquiries (.. client_id INTEGER REFERENCES clients(id)
\* ON DELETE SET NULL ..): the table keeps the definition it was first made with
initializeDatabase(S) ==
    [S EXCEPT !.ddl = IF S.ddl = "absent" THEN "fk" ELSE S.ddl]

\* GET /api/admin/clients
getClients(S, query, in) ==
    LET caught == errorResponse("Failed to fetch clients", 500)
        id == GetInt(query, "id")
    IN
    IF id # 0
    THEN IF in.fail = "s1" THEN Reply(S, caught)
         ELSE LET found == {c \in S.cl : c.id = id} IN
              IF found = {} THEN Reply(S, errorResponse("Client not found", 404))
              ELSE IF in.fail = "s2" THEN Reply(S, caught)
              ELSE Reply(S, jsonResponse(
                       [client |-> found,
                        inquiries |-> {q \in S.inq : q.client_id = id}], 200))
    ELSE IF in.fail = "s1" THEN Reply(S, caught)
         ELSE Reply(S, jsonResponse([clients |-> S.cl], 200))

\* POST /api/admin/clients
createClient(S, body, in) ==
    LET name == Get(body, "name")
        status == IF "status" \in DOMAIN body THEN body["status"] ELSE "lead"
        row == [id |-> S.cseq + 1, name |-> name,
                email |-> Get(body, "email"), phone |-> Get(body, "phone"),
                company |-> Get(body, "company"), status |-> status,
                budget |-> Get(body, "budget"), deadline |-> Get(body, "deadline"),
                cost |-> Get(body, "cost"), notes |-> Get(body, "notes"),
                created_at |-> S.now, updated_at |-> S.now]
    IN
    IF name = "" THEN Reply(S, errorResponse("Name is required", 400))
    ELSE IF in.fail = "s1" THEN Reply(S, errorResponse("Failed to create client", 500))
    ELSE Reply([S EXCEPT !.cl = S.cl \cup {row}, !.cseq = S.cseq + 1],
               jsonResponse(row, 201))

\* UPDATE clients SET every column: the columns the body leaves out are emptied
UpdateRow_Replace(c, body, t) ==
    [f \in DOMAIN c |->
        IF f = "updated_at" THEN t
        ELSE IF f \in {"id", "created_at"} THEN c[f]
        ELSE Get(body, f)]

\* UPDATE clients SET <each field in the body> = .., updated_at = NOW() WHERE id = ..
UpdateRow(c, body, t) ==
    [f \in DOMAIN c |->
        IF f = "updated_at" THEN t
        ELSE IF f \in DOMAIN body /\ f \in {ClientFields[i] : i \in DOMAIN ClientFields}
        THEN body[f]
        ELSE c[f]]

\* PUT /api/admin/clients with a name column that accepts NULL
updateClient_NameNullable(S, body, in) ==
    LET id == GetInt(body, "id")
        updates == {f \in DOMAIN body : \E i \in DOMAIN ClientFields : ClientFields[i] = f}
        target == {c \in S.cl : c.id = id}
    IN
    IF id = 0 THEN Reply(S, errorResponse("Client ID is required", 400))
    ELSE IF updates = {} THEN Reply(S, errorResponse("No fields to update", 400))
    ELSE IF in.fail = "s1" THEN Reply(S, errorResponse("Failed to update client", 500))
    ELSE IF target = {} THEN Reply(S, errorResponse("Client not found", 404))
    ELSE LET new == {UpdateRow(c, body, S.now) : c \in target} IN
         Reply([S EXCEPT !.cl = (S.cl \ target) \cup new], jsonResponse(new, 200))

\* PUT /api/admin/clients
updateClient(S, body, in) ==
    LET id == GetInt(body, "id")
        updates == {f \in DOMAIN body : \E i \in DOMAIN ClientFields : ClientFields[i] = f}
        target == {c \in S.cl : c.id = id}
        caught == errorResponse("Failed to update client", 500)
    IN
    IF id = 0 THEN Reply(S, errorResponse("Client ID is required", 400))
    ELSE IF updates = {} THEN Reply(S, errorResponse("No fields to update", 400))
    ELSE IF in.fail = "s1" THEN Reply(S, caught)
    \* name TEXT NOT NULL: the statement is refused when it nulls the name of a row
    ELSE IF target # {} /\ "name" \in updates /\ body["name"] = "" THEN Reply(S, caught)
    ELSE IF target = {} THEN Reply(S, errorResponse("Client not found", 404))
    ELSE LET new == {UpdateRow(c, body, S.now) : c \in target} IN
         Reply([S EXCEPT !.cl = (S.cl \ target) \cup new], jsonResponse(new, 200))

\* DELETE FROM clients WHERE id = ..; ON DELETE SET NULL acts when inquiries has
\* the foreign key
deleteClient(S, body, in) ==
    LET id == GetInt(body, "id")
        target == {c \in S.cl : c.id = id}
    IN
    IF id = 0 THEN Reply(S, errorResponse("Client ID is required", 400))
    ELSE IF in.fail = "s1" THEN Reply(S, errorResponse("Failed to delete client", 500))
    ELSE IF target = {} THEN Reply(S, errorResponse("Client not found", 404))
    ELSE Reply([S EXCEPT
                  !.cl = S.cl \ target,
                  !.inq = IF S.ddl = "fk"
                          THEN {IF q.client_id = id THEN [q EXCEPT !.client_id = 0] ELSE q
                                : q \in S.inq}
                          ELSE S.inq],
               jsonResponse([success |-> TRUE, message |-> "Client deleted",
                             client |-> target], 200))

\* GET /api/admin/inquiries
getInquiries(S, in) ==
    IF in.fail = "s1" THEN Reply(S, errorResponse("Failed to fetch inquiries", 500))
    ELSE Reply(S, jsonResponse([inquiries |-> S.inq], 200))

\* POST /api/admin/inquiries/link
linkInquiry(S, body, in) ==
    LET inquiry_id == GetInt(body, "inquiry_id")
        client_id == GetInt(body, "client_id")
        target == {q \in S.inq : q.id = inquiry_id}
        caught == errorResponse("Failed to link inquiry", 500)
    IN
    IF inquiry_id = 0 \/ client_id = 0
    THEN Reply(S, errorResponse("inquiry_id and client_id are required", 400))
    ELSE IF in.fail = "s1" THEN Reply(S, caught)
    \* REFERENCES clients(id): the statement is refused when the client is missing
    ELSE IF target # {} /\ S.ddl = "fk" /\ ~\E c \in S.cl : c.id = client_id
    THEN Reply(S, caught)
    ELSE IF target = {} THEN Reply(S, errorResponse("Inquiry not found", 404))
    ELSE LET new == {[q EXCEPT !.client_id = client_id] : q \in target} IN
         Reply([S EXCEPT !.inq = (S.inq \ target) \cup new],
               jsonResponse([success |-> TRUE, inquiry |-> new], 200))

-----------------------------------------------------------------------------
(* The main handler: a request is [method, path, auth, body]; the path is    *)
(* the sequence of its segments, the query parameters are read from body.   *)

OTP_SEND == <<"api", "admin", "otp", "send">>
OTP_VERIFY == <<"api", "admin", "otp", "verify">>
OTP_LOGOUT == <<"api", "admin", "otp", "logout">>
CLIENTS == <<"api", "admin", "clients">>
INQUIRIES == <<"api", "admin", "inquiries">>
INQUIRIES_LINK == <<"api", "admin", "inquiries", "link">>

handleCors(S) == Reply(S, [status |-> 204, body |-> <<>>])

\* the routes behind checkAuth
authedRoutes(S, r, in) ==
    IF r.method = "GET" /\ EndsWith(r.path, CLIENTS) THEN getClients(S, r.body, in)
    ELSE IF r.method = "GET" /\ EndsWith(r.path, INQUIRIES) THEN getInquiries(S, in)
    ELSE IF r.method = "POST" /\ EndsWith(r.path, CLIENTS) THEN createClient(S, r.body, in)
    ELSE IF r.method = "POST" /\ EndsWith(r.path, INQUIRIES_LINK) THEN linkInquiry(S, r.body, in)
    ELSE IF r.method = "PUT" /\ EndsWith(r.path, CLIENTS) THEN updateClient(S, r.body, in)
    ELSE IF r.method = "DELETE" /\ EndsWith(r.path, CLIENTS) THEN deleteClient(S, r.body, in)
    ELSE Reply(S, errorResponse("Not found", 404))

handler(S, r, in) ==
    IF r.method = "OPTIONS" THEN handleCors(S)
    ELSE IF in.fail = "init" THEN Reply(S, errorResponse("Internal server error", 500))
    ELSE
    LET S0 == initializeDatabase(S) IN
    IF r.method = "POST" /\ EndsWith(r.path, OTP_SEND) THEN sendOTP(S0, r.body, in)
    ELSE IF r.method = "POST" /\ EndsWith(r.path, OTP_VERIFY) THEN verifyOTP(S0, r.body, in)
    ELSE IF r.method = "POST" /\ EndsWith(r.path, OTP_LOGOUT) THEN logout(S0, r.auth, in)
    ELSE IF ~checkAuth(S0, r.auth, in) THEN Reply(S0, errorResponse("Unauthorized", 401))
    ELSE authedRoutes(S0, r, in)

-----------------------------------------------------------------------------
(* The contact-form handler.  A form field is a string given as the         *)
(* sequence of its pieces: a word, a blank " ", a line break "\n", or a     *)
(* mark such as "@", ".", "<", "http://", "[url=".  A missing field is <<>>.*)

Blank(p) == p \in {" ", "\n", "\t"}

\* String.prototype.trim
RECURSIVE TrimLeft(_)
TrimLeft(t) == IF t # <<>> /\ Blank(Head(t)) THEN TrimLeft(Tail(t)) ELSE t
RECURSIVE TrimRight(_)
TrimRight(t) ==
    IF t # <<>> /\ Blank(t[Len(t)]) THEN TrimRight(SubSeq(t, 1, Len(t) - 1)) ELSE t
Trim(t) == TrimRight(TrimLeft(t))

\* text.trim().slice(0, maxLength), the length counted in pieces
sanitizeInput(t, maxLength) ==
    LET u == Trim(t) IN IF Len(u) > maxLength THEN SubSeq(u, 1, maxLength) ELSE u

\* a form field, <<>> when the form lacks it
Field(form, f) == IF f \in DOMAIN form THEN form[f] ELSE <<>>

\* mutant: any text with an @ passes
isValidEmail_HasAt(t) == \E i \in DOMAIN t : t[i] = "@"

\* /^[^\s@]+@[^\s@]+\.[^\s@]+$/
isValidEmail(t) ==
    /\ \A i \in DOMAIN t : ~Blank(t[i])
    /\ \E i \in DOMAIN t :
          /\ t[i] = "@"
          /\ i > 1
          /\ \A j \in DOMAIN t : t[j] = "@" => j = i
          /\ \E k \in DOMAIN t : k > i + 1 /\ k < Len(t) /\ t[k] = "."

\* a piece that holds a letter
Word(p) ==
    p \notin {" ", "\n", "\t", "@", ".", "<", ">", "{", "}", "[", "]", "\\", "/",
              "http://", "https://", "[url=", "[/url]", "$$$", "$", "<a", "href=", "123"}

\* no URL, none of < > { } [ ] \ /, and at least one letter
isValidName(t) ==
    /\ \A i \in DOMAIN t :
          t[i] \notin {"http://", "https://", "<", ">", "{", "}", "[", "]", "\\", "/",
                       "[url=", "[/url]", "<a"}
    /\ \E i \in DOMAIN t : Word(t[i])

\* the spam patterns, piece by piece and without regard to case
Lower(p) ==
    CASE p = "VIAGRA" -> "viagra" [] p = "Casino" -> "casino" [] OTHER -> p
Url(p) == Lower(p) \in {"http://", "https://"}
SameLine(t, i, j) == \A k \in i..j : t[k] # "\n"
containsSpamPatterns(t) ==
    \/ \E i \in DOMAIN t : Lower(t[i]) \in {"[url=", "[/url]"}
    \/ \E i \in DOMAIN t, j \in DOMAIN t :
          /\ i < j - 1
          /\ Lower(t[i]) = "<a"
          /\ Lower(t[j]) = "href="
          /\ \A k \in (i + 1)..(j - 1) : Blank(t[k])
    \/ \E i \in DOMAIN t, j \in DOMAIN t, k \in DOMAIN t :
          /\ i + 2 < j /\ j + 2 < k
          /\ Url(t[i]) /\ Url(t[j]) /\ Url(t[k])
          /\ ~Blank(t[i + 1]) /\ Blank(t[j - 1])
          /\ ~Blank(t[j + 1]) /\ Blank(t[k - 1])
          /\ \A m \in (i + 1)..(j - 1) : \A n \in m..(j - 1) : Blank(t[m]) => Blank(t[n])
          /\ \A m \in (j + 1)..(k - 1) : \A n \in m..(k - 1) : Blank(t[m]) => Blank(t[n])
    \/ \E i \in DOMAIN t : Lower(t[i]) \in {"viagra", "cialis", "casino", "lottery", "winner"}
    \/ \E i \in DOMAIN t, j \in DOMAIN t :
          i < j /\ Lower(t[i]) = "bitcoin" /\ Lower(t[j]) = "invest" /\ SameLine(t, i, j)
    \/ \E i \in DOMAIN t, j \in DOMAIN t, k \in DOMAIN t :
          /\ i < j - 1 /\ j < k
          /\ Lower(t[i]) = "click" /\ Lower(t[j]) = "here" /\ Lower(t[k]) \in {"http://", "https://", "http"}
          /\ \A m \in (i + 1)..(j - 1) : Blank(t[m])
          /\ SameLine(t, j, k)
    \/ \E i \in DOMAIN t : t[i] = "$$$"
    \/ \E i \in DOMAIN t :
          /\ i + 4 <= Len(t)
          /\ Lower(t[i]) = "make" /\ t[i + 1] = " " /\ Lower(t[i + 2]) = "money"
          /\ t[i + 3] = " " /\ Lower(t[i + 4]) = "fast"
    \/ \E i \in DOMAIN t, j \in DOMAIN t :
          /\ i + 4 < j
          /\ Lower(t[i]) = "work" /\ t[i + 1] = " " /\ Lower(t[i + 2]) = "from"
          /\ t[i + 3] = " " /\ Lower(t[i + 4]) = "home"
          /\ t[j] \in {"$", "$$$"}
          /\ SameLine(t, i, j)

CONTACT_EMAIL == <<"owner", "@", "site", ".", "com">>

\* Store inquiry in database: CREATE TABLE IF NOT EXISTS inquiries (.. client_id
\* INTEGER ..) without the foreign key, then the INSERT; errors are swallowed.
storeInquiry(S, form, name, email, message, in) ==
    IF in.fail = "s1" THEN S
    ELSE
    LET S1 == [S EXCEPT !.ddl = IF S.ddl = "absent" THEN "plain" ELSE S.ddl]
        company == sanitizeInput(Field(form, "company"), 200)
        budget == sanitizeInput(Field(form, "budget"), 100)
    IN
    IF in.fail = "s2" THEN S1
    ELSE [S1 EXCEPT
            !.inq = S1.inq \cup
                {[id |-> S1.iseq + 1, client_id |-> 0, name |-> name, email |-> email,
                  company |-> company, budget |-> budget, message |-> message,
                  created_at |-> S.now]},
            !.iseq = S1.iseq + 1]

\* a body that JSON.parse refuses
NotJson == [SyntaxError |-> <<"{">>]

\* mutant: the honeypot is never looked at
honeypotTripped_Never(form) == FALSE

\* formData.website && formData.website.trim() !== ""
honeypotTripped(form) == Trim(Field(form, "website")) # <<>>

\* what the mail API may do with the notification mail of the contact form
ContactMailOutcomes == {"ok", "unconfigured", "rejected", "limited", "throws"}

\* mutant: a failed notification is not noticed
notificationError_Ignored(in) == NoResp

\* the answer when the notification mail to the site owner is not sent:
\* configuration missing, the fetch throwing, the mail API refusing; NoResp
\* when the mail was accepted
notificationError(in) ==
    CASE in.mail = "unconfigured" ->
            errorResponse("Email service not configured. Please contact us directly.", 500)
      [] in.mail = "throws" -> errorResponse("Internal server error", 500)
      [] in.mail = "rejected" ->
            errorResponse("Failed to send email. Please try again later.", 500)
      [] in.mail = "limited" ->
            errorResponse("Too many requests. Please wait a moment and try again.", 500)
      [] OTHER -> NoResp

\* the answer of a submission that went through, or is made to look so
Sent == jsonResponse([success |-> TRUE, message |-> "Email sent successfully"], 200)

\* mutant: a failure to store the inquiry fails the request
afterNotification_StoreFails(S, form, name, email, message, in) ==
    LET S1 == IF in.confirm = "ok"
              THEN [S EXCEPT !.mail = S.mail \cup {[to |-> email, code |-> "confirmation"]}]
              ELSE S
    IN IF in.fail # "none" THEN Reply(S1, errorResponse("Internal server error", 500))
       ELSE Reply(storeInquiry(S1, form, name, email, message, in), Sent)

\* the steps after the notification: the confirmation mail and the inquiry
\* row, each in a try/catch of its own, then the answer
afterNotification(S, form, name, email, message, in) ==
    LET S1 == IF in.confirm = "ok"
              THEN [S EXCEPT !.mail = S.mail \cup {[to |-> email, code |-> "confirmation"]}]
              ELSE S
    IN Reply(storeInquiry(S1, form, name, email, message, in), Sent)

\* POST /api/send-email
sendEmail(S, r, in) ==
    LET form == r.body
        name == sanitizeInput(Field(form, "name"), 200)
        email == sanitizeInput(Field(form, "email"), 254)
        message == sanitizeInput(Field(form, "message"), 10000)
    IN
    IF r.method # "POST" THEN Reply(S, errorResponse("Method not allowed", 405))
    ELSE IF "SyntaxError" \in DOMAIN form THEN Reply(S, errorResponse("Invalid request format", 400))
    ELSE IF honeypotTripped(form) THEN Reply(S, Sent)
    ELSE IF name = <<>> \/ email = <<>> \/ message = <<>>
    THEN Reply(S, errorResponse(
             "Missing required fields: name, email, and message are required", 400))
    ELSE IF ~isValidEmail(email)
    THEN Reply(S, errorResponse("Please provide a valid email address", 400))
    ELSE IF ~isValidName(name)
    THEN Reply(S, errorResponse("Please provide a valid name", 400))
    ELSE IF containsSpamPatterns(message) \/ containsSpamPatterns(name) THEN Reply(S, Sent)
    ELSE IF notificationError(in) # NoResp THEN Reply(S, notificationError(in))
    ELSE afterNotification(
             [S EXCEPT !.mail = S.mail \cup {[to |-> CONTACT_EMAIL, code |-> "inquiry"]}],
             form, name, email, message, in)

-----------------------------------------------------------------------------
(* State machine *)

Procs == 1..NumProcs
Idle == [pc |-> "idle"]

Init ==
    /\ now = 0
    /\ ticks = 0
    /\ otp_codes = {}
    /\ otp_seq = 0
    /\ admin_sessions = {}
    /\ sess_seq = 0
    /\ outbox = {}
    /\ issued = EmptyBag
    /\ redeemed = EmptyBag
    /\ clients = {}
    /\ client_seq = 0
    /\ inquiries = {}
    /\ inquiry_seq = 0
    /\ inquiries_ddl = "absent"
    /\ req = NoReq
    /\ resp = NoResp
    /\ procs = [p \in Procs |-> Idle]
    /\ gallery = NoGallery

\* the store a handler leaves becomes the store
Apply(S) ==
    /\ otp_codes' = S.otp
    /\ otp_seq' = S.oseq
    /\ admin_sessions' = S.sess
    /\ sess_seq' = S.sseq
    /\ outbox' = S.mail
    /\ issued' = S.iss
    /\ redeemed' = S.red
    /\ clients' = S.cl
    /\ client_seq' = S.cseq
    /\ inquiries' = S.inq
    /\ inquiry_seq' = S.iseq
    /\ inquiries_ddl' = S.ddl
    /\ resp' = S.resp

\* the rows the SELECT of a verify request may return now
Picks(r) ==
    LET found == FindValidOtp(otp_codes, ToLowerCase(Get(r.body, "email")),
                              Get(r.body, "code"), now)
    IN IF found = {} THEN {NoRow} ELSE found

\* One request to the admin API, served alone.
Serve(r, in) ==
    /\ Apply(handler(Cur, r, in))
    /\ req' = r
    /\ UNCHANGED <<gallery, now, ticks, procs>>

\* The clock of the store moves on.
Advance(d) ==
    /\ now' = now + d
    /\ ticks' = ticks + 1
    /\ req' = NoReq
    /\ resp' = NoResp
    /\ outbox' = {}
    /\ UNCHANGED <<gallery, otp_codes, otp_seq, admin_sessions, sess_seq, issued,
                   redeemed, clients, client_seq, inquiries, inquiry_seq,
                   inquiries_ddl, procs>>

Request(method, path, auth, body) ==
    [method |-> method, path |-> path, auth |-> auth, body |-> body]
SendReq(e) == Request("POST", OTP_SEND, <<>>, [email |-> e])
VerifyReq(e, c) == Request("POST", OTP_VERIFY, <<>>, [email |-> e, code |-> c])
LogoutReq(h) == Request("POST", OTP_LOGOUT, h, <<>>)

\* POST /api/admin/otp/send {email}
OtpSend(e, c, m, a, f) ==
    Serve(Request("POST", OTP_SEND, <<>>, [email |-> e]),
          [Quiet EXCEPT !.code = c, !.mail = m, !.admin = a, !.fail = f])

\* POST /api/admin/otp/verify {email, code}
OtpVerify(e, c, t, a, f) ==
    LET r == Request("POST", OTP_VERIFY, <<>>, [email |-> e, code |-> c]) IN
    \E row \in Picks(r) :
        Serve(r, [Quiet EXCEPT !.token = t, !.pick = row, !.admin = a, !.fail = f])

\* POST /api/admin/otp/logout
OtpLogout(h, f) ==
    Serve(Request("POST", OTP_LOGOUT, h, <<>>), [Quiet EXCEPT !.fail = f])

\* any other request to /api/admin/*
Admin(method, path, h, body, f) ==
    Serve(Request(method, path, h, body), [Quiet EXCEPT !.fail = f])

\* POST /api/send-email, the contact form
SEND_EMAIL == <<"api", "send-email">>
Contact(method, form, m, k, f) ==
    LET r == Request(method, SEND_EMAIL, <<>>, form) IN
    /\ Apply(sendEmail(Cur, r, [Quiet EXCEPT !.mail = m, !.confirm = k, !.fail = f]))
    /\ req' = r
    /\ UNCHANGED <<gallery, now, ticks, procs>>

\* what bounds a run: rows ever inserted and advances of the clock
Events == otp_seq + sess_seq + client_seq + inquiry_seq + ticks
Within(max) == Events' <= max

-----
(* Login and sessions, requests served one at a time, the store reliable.   *)

NextOtp ==
    \/ \E e \in Emails, c \in Codes, m \in MailOutcomes :
          OtpSend(e, c, m, ADMIN_EMAIL, "none") /\ Within(MaxEvents)
    \/ \E e \in Emails, c \in Codes \cup {""}, t \in Tokens :
          OtpVerify(e, c, t, ADMIN_EMAIL, "none") /\ Within(MaxEvents)
    \/ \E h \in AuthHeaders : OtpLogout(h, "none") /\ Within(MaxEvents)
    \/ \E h \in AuthHeaders :
          Admin("GET", CLIENTS, h, <<>>, "none") /\ Within(MaxEvents)
    \/ \E d \in Jumps : Advance(d) /\ Within(MaxEvents)

Spec == Init /\ [][NextOtp]_vars

-----------------------------------------------------------------------------
(* Request-code calls alone, to fill the rate-limit window. *)

NextRate ==
    \/ \E e \in Emails, m \in {"ok", "rejected"} :
          OtpSend(e, "111111", m, ADMIN_EMAIL, "none") /\ Within(RateMaxEvents)
    \/ \E d \in {1, 10} : Advance(d) /\ Within(RateMaxEvents)

SpecRate == Init /\ [][NextRate]_vars

-----------------------------------------------------------------------------
(* Requests whose store statements may throw, and a deployment that may     *)
(* lack ADMIN_EMAIL.                                                        *)

NextFault ==
    \/ \E e \in Emails, m \in MailOutcomes, a \in {ADMIN_EMAIL, ""}, f \in FailPoints :
          OtpSend(e, "111111", m, a, f) /\ Within(FaultMaxEvents)
    \/ \E e \in Emails, c \in Codes \cup {""}, t \in Tokens, a \in {ADMIN_EMAIL, ""},
          f \in FailPoints :
          OtpVerify(e, c, t, a, f) /\ Within(FaultMaxEvents)
    \/ \E h \in AuthHeaders, f \in FailPoints :
          OtpLogout(h, f) /\ Within(FaultMaxEvents)
    \/ \E h \in AuthHeaders, f \in FailPoints :
          Admin("GET", CLIENTS, h, <<>>, f) /\ Within(FaultMaxEvents)

SpecFault == Init /\ [][NextFault]_vars

-----------------------------------------------------------------------------
(* The CRM behind the login: every route of the admin API with every        *)
(* Authorization header, and the contact form that files the inquiries.     *)

AnnForm == [name |-> <<"Ann">>, email |-> <<"ann", "@", "mail", ".", "com">>,
            message |-> <<"hello">>]
Forms == {AnnForm, [AnnForm EXCEPT !.email = <<"ann">>]}

\* the CRUD requests: method, path, body
CrudCalls ==
    {<<"GET", CLIENTS, <<>>>>,
     <<"GET", CLIENTS, [id |-> 1]>>,
     <<"GET", INQUIRIES, <<>>>>,
     <<"POST", CLIENTS, [name |-> "Ann"]>>,
     <<"PUT", CLIENTS, [id |-> 1, status |-> "active"]>>,
     <<"DELETE", CLIENTS, [id |-> 1]>>,
     <<"POST", INQUIRIES_LINK, [inquiry_id |-> 1, client_id |-> 1]>>}

\* requests no route matches
OtherCalls ==
    {<<"GET", OTP_SEND, <<>>>>,
     <<"DELETE", INQUIRIES, [id |-> 1]>>,
     <<"OPTIONS", CLIENTS, <<>>>>}

NextApi ==
    \/ OtpSend("ADMIN@site.com", "111111", "ok", ADMIN_EMAIL, "none") /\ Within(ApiMaxEvents)
    \/ OtpVerify("ADMIN@site.com", "111111", <<"tokA">>, ADMIN_EMAIL, "none")
          /\ Within(ApiMaxEvents)
    \/ \E h \in AuthHeaders : OtpLogout(h, "none") /\ Within(ApiMaxEvents)
    \/ \E c \in CrudCalls \cup OtherCalls, h \in AuthHeaders :
          Admin(c[1], c[2], h, c[3], "none") /\ Within(ApiMaxEvents)
    \/ \E form \in Forms, m \in {"ok", "rejected"} :
          Contact("POST", form, m, "ok", "none") /\ Within(ApiMaxEvents)
    \/ Advance(SESSION_TTL) /\ Within(ApiMaxEvents)

SpecApi == Init /\ [][NextApi]_vars

-----------------------------------------------------------------------------
(* The CRM with the admin logged in: client bodies of every shape (a status  *)
(* outside the list, an empty name, no updatable field, an unknown id), the  *)
(* contact form, and the clock.                                              *)

CrmCalls ==
    {<<"POST", CLIENTS, [name |-> "Ann"]>>,
     <<"POST", CLIENTS, [name |-> "Bob", status |-> "vip"]>>,
     <<"POST", CLIENTS, [email |-> "ann@mail.com"]>>,
     <<"PUT", CLIENTS, [id |-> 1, status |-> "active"]>>,
     <<"PUT", CLIENTS, [id |-> 1, status |-> "vip"]>>,
     <<"PUT", CLIENTS, [id |-> 1, name |-> ""]>>,
     <<"PUT", CLIENTS, [id |-> 2, name |-> "", notes |-> "call"]>>,
     <<"PUT", CLIENTS, [id |-> 1, name |-> "Bob", notes |-> "call"]>>,
     <<"PUT", CLIENTS, [id |-> 1]>>,
     <<"PUT", CLIENTS, [id |-> 2, created_at |-> 7]>>,
     <<"PUT", CLIENTS, [status |-> "active"]>>,
     <<"DELETE", CLIENTS, [id |-> 1]>>,
     <<"POST", INQUIRIES_LINK, [inquiry_id |-> 1, client_id |-> 1]>>}

NextCrm ==
    \/ OtpSend("ADMIN@site.com", "111111", "ok", ADMIN_EMAIL, "none") /\ Within(CrmMaxEvents)
    \/ OtpVerify("ADMIN@site.com", "111111", <<"tokA">>, ADMIN_EMAIL, "none")
          /\ Within(CrmMaxEvents)
    \/ \E c \in CrmCalls, f \in {"none", "s1"} :
          Admin(c[1], c[2], <<BEARER, "tokA">>, c[3], f) /\ Within(CrmMaxEvents)
    \/ Contact("POST", AnnForm, "ok", "ok", "none") /\ Within(CrmMaxEvents)
    \/ Advance(1) /\ Within(CrmMaxEvents)

SpecCrm == Init /\ [][NextCrm]_vars

-----------------------------------------------------------------------------
(* The contact form alone: every kind of submission, the mail API and the   *)
(* store failing or not.                                                    *)

Websites == {<<>>, <<" ">>, <<"http://", "bot">>}
Names == {<<"Ann">>, <<>>, <<"<", "Ann", ">">>, <<"VIAGRA">>}
FormEmails ==
    {<<"ann", "@", "mail", ".", "com">>,
     <<" ", "ann", "@", "mail", ".", "com", " ">>,
     <<"not-an-email">>,
     <<"ann", "@", "mail">>,
     <<>>}
Messages == {<<"hello">>, <<>>, <<"click", " ", "here", " ", "http://", "x">>, <<"Casino">>}
ContactForms ==
    {[website |-> w, name |-> n, email |-> e, message |-> t] :
        w \in Websites, n \in Names, e \in FormEmails, t \in Messages}
    \cup {[name |-> <<"Ann">>, email |-> <<"ann", "@", "mail", ".", "com">>,
           message |-> <<"hello">>, company |-> <<" ", "Acme">>, budget |-> <<"5k">>],
          NotJson}

\* The handler reads nothing of the store, so a behaviour follows one
\* submission.
NextContact ==
    \/ /\ req = NoReq
       /\ \E form \in ContactForms, m \in ContactMailOutcomes, k \in {"ok", "throws"},
             f \in {"none", "s1", "s2"} :
             Contact("POST", form, m, k, f)
    \/ /\ req = NoReq
       /\ \E form \in {AnnForm, NotJson} : Contact("GET", form, "ok", "ok", "none")

SpecContact == Init /\ [][NextContact]_vars

-----------------------------------------------------------------------------
(* Verify requests served concurrently: each awaited store statement of     *)
(* verifyOTP is a step of its own, and the steps of the requests in flight  *)
(* interleave.  A request in flight keeps its body and the row it selected. *)

Respond(r, answer) ==
    /\ req' = r
    /\ resp' = answer
    /\ outbox' = {}

\* the request arrives: body checks and the admin check, before any statement
VerifyBegin(p, e, c) ==
    /\ procs[p].pc = "idle"
    /\ inquiries_ddl' = initializeDatabase(Cur).ddl
    /\ IF e = "" \/ c = ""
       THEN /\ Respond(VerifyReq(e, c), errorResponse("Email and code are required", 400))
            /\ UNCHANGED procs
       ELSE IF ~isAdminEmail(e, ADMIN_EMAIL)
       THEN /\ Respond(VerifyReq(e, c), errorResponse("Invalid code", 401))
            /\ UNCHANGED procs
       ELSE /\ procs' = [procs EXCEPT ![p] = [pc |-> "select", email |-> e, code |-> c]]
            /\ UNCHANGED <<req, resp, outbox>>
    /\ UNCHANGED <<gallery, now, ticks, otp_codes, otp_seq, admin_sessions, sess_seq, issued,
                   redeemed, clients, client_seq, inquiries, inquiry_seq>>

\* SELECT .. LIMIT 1
VerifySelect(p) ==
    /\ procs[p].pc = "select"
    /\ LET found == FindValidOtp(otp_codes, ToLowerCase(procs[p].email), procs[p].code, now)
       IN IF found = {}
          THEN /\ Respond(VerifyReq(procs[p].email, procs[p].code),
                          errorResponse("Invalid or expired code", 401))
               /\ procs' = [procs EXCEPT ![p] = Idle]
          ELSE /\ \E row \in found :
                     procs' = [procs EXCEPT ![p] = [pc |-> "mark", email |-> procs[p].email,
                                                    code |-> procs[p].code, row |-> row]]
               /\ UNCHANGED <<req, resp, outbox>>
    /\ UNCHANGED <<gallery, now, ticks, otp_codes, otp_seq, admin_sessions, sess_seq, issued,
                   redeemed, clients, client_seq, inquiries, inquiry_seq, inquiries_ddl>>

\* UPDATE otp_codes SET used = TRUE
VerifyMark(p) ==
    /\ procs[p].pc = "mark"
    /\ otp_codes' = MarkUsed(otp_codes, procs[p].row.id)
    /\ procs' = [procs EXCEPT ![p].pc = "purge"]
    /\ UNCHANGED <<gallery, now, ticks, otp_seq, admin_sessions, sess_seq, outbox, issued,
                   redeemed, clients, client_seq, inquiries, inquiry_seq, inquiries_ddl,
                   req, resp>>

\* DELETE FROM admin_sessions WHERE expires_at < NOW()
VerifyPurge(p) ==
    /\ procs[p].pc = "purge"
    /\ admin_sessions' = DeleteExpiredSessions(admin_sessions, now)
    /\ procs' = [procs EXCEPT ![p].pc = "insert"]
    /\ UNCHANGED <<gallery, now, ticks, otp_codes, otp_seq, sess_seq, outbox, issued,
                   redeemed, clients, client_seq, inquiries, inquiry_seq, inquiries_ddl,
                   req, resp>>

\* INSERT INTO admin_sessions, and the response
VerifyInsert(p, t) ==
    /\ procs[p].pc = "insert"
    /\ procs' = [procs EXCEPT ![p] = Idle]
    /\ IF TokenTaken(admin_sessions, t)
       THEN /\ Respond(VerifyReq(procs[p].email, procs[p].code),
                       errorResponse("Verification failed", 500))
            /\ UNCHANGED <<admin_sessions, sess_seq, redeemed>>
       ELSE /\ admin_sessions' =
                   InsertSession(admin_sessions, sess_seq + 1, t,
                                 ToLowerCase(procs[p].email), now)
            /\ sess_seq' = sess_seq + 1
            /\ redeemed' = redeemed (+)
                   SetToBag({[id |-> procs[p].row.id, code |-> procs[p].row.code]})
            /\ Respond(VerifyReq(procs[p].email, procs[p].code),
                       jsonResponse([token |-> t, expiresIn |-> EXPIRES_IN], 200))
    /\ UNCHANGED <<gallery, now, ticks, otp_codes, otp_seq, issued, clients, client_seq,
                   inquiries, inquiry_seq, inquiries_ddl>>

NextConc ==
    \/ \E e \in AdminEmails, c \in Codes :
          OtpSend(e, c, "ok", ADMIN_EMAIL, "none") /\ Within(ConcMaxEvents)
    \/ \E p \in Procs, e \in Emails, c \in Codes \cup {""} : VerifyBegin(p, e, c)
    \/ \E p \in Procs : VerifySelect(p)
    \/ \E p \in Procs : VerifyMark(p)
    \/ \E p \in Procs : VerifyPurge(p)
    \/ \E p \in Procs, t \in Tokens : VerifyInsert(p, t) /\ Within(ConcMaxEvents)

SpecConc == Init /\ [][NextConc]_vars

-----------------------------------------------------------------------------
(* The security edge function.  A path, a query string and a user-agent are *)
(* sequences of pieces; the pieces are chosen so that a pattern of the code *)
(* matches a string exactly when its pieces occur as written below.  A      *)
(* request is [method, path, search, headers], headers a function from the  *)
(* lower-cased names of the headers present to their values.                *)

\* String.prototype.toLowerCase on the pieces of the model
LowerPiece(p) ==
    CASE p = ".PHP" -> ".php"
      [] p = "WP-Login" -> "wp-login"
      [] p = "Nmap" -> "nmap"
      [] p = "WPScan" -> "wpscan"
      [] p = "SQLMap" -> "sqlmap"
      [] p = "<SCRIPT" -> "<script"
      [] OTHER -> p

\* String.prototype.toUpperCase on the methods of the model
ToUpperCase(m) ==
    CASE m = "post" -> "POST"
      [] m = "put" -> "PUT"
      [] OTHER -> m

\* the pieces of the model that begin with another, shorter piece
Longer ==
    {<<"wp-administrator", "wp-admin">>, <<"send-emails", "send-email">>,
     <<"logs", "log">>, <<"administrators", "administrator">>}
\* piece p begins with the text w, as written and without regard to case
BeginsExact(p, w) == p = w \/ <<p, w>> \in Longer
Begins(p, w) == BeginsExact(LowerPiece(p), w)

\* mutant: every path counts as lying under every prefix
StartsWith_Any(path, prefix) == TRUE

\* pathname.startsWith(prefix), the prefix ending with a whole piece
StartsWith(path, prefix) ==
    /\ Len(path) >= Len(prefix)
    /\ SubSeq(path, 1, Len(prefix)) = prefix

BLOCKED_EXTENSIONS ==
    {".php", ".asp", ".aspx", ".jsp", ".cgi", ".pl", ".exe", ".dll", ".env", ".git",
     ".bak", ".sql", ".config", ".ini", ".log", ".sh", ".bash", ".zsh", ".py", ".rb",
     ".jar", ".war", ".class"}

\* mutant: the extension is compared as written, not in lower case
isBlockedExtension_CaseSensitive(pathname) ==
    pathname # <<>> /\ pathname[Len(pathname)] \in BLOCKED_EXTENSIONS

\* lowerPath.endsWith(ext) for some blocked extension
isBlockedExtension(pathname) ==
    pathname # <<>> /\ LowerPiece(pathname[Len(pathname)]) \in BLOCKED_EXTENSIONS

\* BLOCKED_PATH_PATTERNS of the form /\/word/i
BlockedWords ==
    {"wp-admin", "wp-content", "wp-includes", "wp-login", "wp-config", "wp-json",
     "xmlrpc", "wp-cron", "wp-trackback", "wp-comments", "wordpress",
     "administrator", "joomla", "drupal", "magento", "phpmyadmin", "cpanel", "plesk",
     "webmail", "roundcube", "squirrelmail",
     "shell", "c99", "r57", "alfa", "b374k", "weevely", "wso",
     "eval", "exec", "system", "passthru", "actuator", "console", "debug", "trace",
     "manager", "solr", "jenkins", "struts", "log4j"}
\* ... of the form /\/word\//i
BlockedDirs ==
    {"cgi-bin", "scripts", "bin", "proc", "tmp", "vendor", "node_modules",
     "bower_components"}
\* ... of the form /\.word\//i
BlockedDotDirs == {".git", ".svn", ".hg"}
\* ... of the form /\.word$/i
BlockedEndings == {".env", ".bak", ".backup", ".old", ".orig", ".save", ".swp", ".sql"}
\* ... of the form /\.word/i
BlockedDotFiles == {".htaccess", ".htpasswd", ".npmrc", ".dockerenv"}
\* ... of the form /word\./i
BlockedStems == {"dump", "backup", "database", "db"}
\* the pieces that begin with a dot, and those of the form v[0-9]+
Dotted(p) == p \in {".html", ".json", ".js", ".css", ".local"} \cup BLOCKED_EXTENSIONS
                 \cup BlockedEndings \cup BlockedDotFiles \cup BlockedDotDirs
Version(p) == p \in {"v1", "v2", "v10"}

\* BLOCKED_PATH_PATTERNS.some((pattern) => pattern.test(pathname))
isBlockedPath(pathname) ==
    LET n == Len(pathname)
        at(i) == IF i \in 1..n THEN LowerPiece(pathname[i]) ELSE ""
    IN
    \E i \in 1..n :
        \/ at(i) = "/" /\ \E w \in BlockedWords : i < n /\ Begins(pathname[i + 1], w)
        \/ at(i) = "/" /\ at(i + 1) \in BlockedDirs /\ at(i + 2) = "/"
        \/ at(i) \in BlockedDotDirs /\ at(i + 1) = "/"
        \/ at(i) \in BlockedEndings /\ i = n
        \/ at(i) = ".env" /\ i < n /\ Dotted(at(i + 1))
        \/ at(i) \in BlockedDotFiles
        \/ at(i) = "/" /\ at(i + 1) = ".well-known" /\ at(i + 2) = "/"
              /\ ~(i + 3 <= n /\ Begins(pathname[i + 3], "acme-challenge"))
        \/ pathname[i] = "~" /\ i = n
        \/ at(i) \in BlockedStems /\ i < n /\ Dotted(at(i + 1))
        \/ at(i) = "/" /\ at(i + 1) = "etc" /\ at(i + 2) = "/"
              /\ i + 3 <= n /\ Begins(pathname[i + 3], "passwd")
        \/ at(i) = "/" /\ at(i + 1) = "var" /\ at(i + 2) = "/"
              /\ i + 3 <= n /\ Begins(pathname[i + 3], "log")
        \/ at(i) = "/" /\ at(i + 1) = "api" /\ at(i + 2) = "/" /\ Version(at(i + 3))
              /\ at(i + 4) = "/" /\ i + 5 <= n /\ Begins(pathname[i + 5], "admin")

\* BLOCKED_QUERY_PATTERNS of one piece, e.g. /javascript:/i
BlockedQueryPieces ==
    {"%00", "\\x00", "<script", "javascript:", "vbscript:", "data:", "base64,",
     "../", "%2e%2e", "$poison", "cmd=", "passwd", "etc/shadow", "phpinfo",
     "file://", "gopher://", "dict://"}
\* ... of the form /a\s+b/i
BlockedQueryPairs ==
    {<<"union", "select">>, <<"insert", "into">>, <<"drop", "table">>,
     <<"delete", "from">>}
\* ... of the form /a\s+.*\s+b/i
BlockedQuerySpans == {<<"select", "from">>, <<"update", "set">>}
\* ... of the form /a.*b/i
BlockedQueryBrackets == {<<";", "--">>, <<"${", "}">>, <<"{{", "}}">>}
\* ... of the form /a\s*\(/i
BlockedQueryCalls == {"eval", "exec", "system"}

\* BLOCKED_QUERY_PATTERNS.some((pattern) => pattern.test(search))
hasSuspiciousQuery(search) ==
    LET n == Len(search)
        at(i) == LowerPiece(search[i])
        blanks(i, j) == \A k \in (i + 1)..(j - 1) : Blank(search[k])
    IN
    IF search = <<>> THEN FALSE
    ELSE
    \/ \E i \in 1..n : at(i) \in BlockedQueryPieces
    \/ \E i \in 1..n, j \in 1..n :
          /\ i < j
          /\ \/ <<at(i), at(j)>> \in BlockedQueryPairs /\ i + 1 < j /\ blanks(i, j)
             \/ <<at(i), at(j)>> \in BlockedQuerySpans
                    /\ i + 2 < j /\ Blank(search[i + 1]) /\ Blank(search[j - 1])
             \/ <<at(i), at(j)>> \in BlockedQueryBrackets
             \/ at(i) \in BlockedQueryCalls /\ at(j) = "(" /\ blanks(i, j)

\* BLOCKED_USER_AGENTS, the patterns that name a tool
BlockedAgents ==
    {"sqlmap", "nikto", "nmap", "masscan", "zmeu", "morfeus", "zgrab", "gobuster",
     "dirbuster", "wpscan", "nessus", "openvas", "nuclei", "acunetix", "burpsuite",
     "havij", "w3af", "arachni", "qualys"}

\* /sqlmap|nikto|zmeu|morfeus|zgrab|wpscan|acunetix|havij|w3af/i
MaliciousAgents ==
    {"sqlmap", "nikto", "zmeu", "morfeus", "zgrab", "wpscan", "acunetix", "havij", "w3af"}

\* request.headers.get(name): null when the header is absent
NULL == <<"null">>
Header(request, name) ==
    IF name \in DOMAIN request.headers THEN request.headers[name] ELSE NULL

\* mutant: no user-agent is suspicious
isSuspiciousUserAgent_Never(userAgent) == FALSE

\* !userAgent is true of null and of the empty string; /^$/i matches the
\* empty string
isSuspiciousUserAgent(userAgent) ==
    IF userAgent = NULL \/ userAgent = <<>> THEN TRUE
    ELSE \E i \in DOMAIN userAgent : LowerPiece(userAgent[i]) \in BlockedAgents

SUSPICIOUS_HEADERS == {"x-forwarded-host", "x-original-url", "x-rewrite-url"}

hasSuspiciousHeaders(request) ==
    \E header \in SUSPICIOUS_HEADERS : header \in DOMAIN request.headers

\* parseInt(contentLength, 10): the text is the sequence of its characters; an
\* optional sign, then the decimal digits up to the first other character; NaN
\* when there is no digit
NaN == <<>>
MAX_BODY == 1048576

parseInt(text) ==
    LET digit(c) == CASE c = "0" -> 0 [] c = "1" -> 1 [] c = "2" -> 2 [] c = "3" -> 3
                      [] c = "4" -> 4 [] c = "5" -> 5 [] c = "6" -> 6 [] c = "7" -> 7
                      [] c = "8" -> 8 [] c = "9" -> 9 [] OTHER -> -1
        signed == Len(text) > 0 /\ text[1] \in {"+", "-"}
        first == IF signed THEN 2 ELSE 1
        last == CHOOSE n \in (first - 1)..Len(text) :
                    /\ \A i \in first..n : digit(text[i]) >= 0
                    /\ n < Len(text) => digit(text[n + 1]) < 0
        value[n \in (first - 1)..Len(text)] ==
            IF n < first THEN 0 ELSE value[n - 1] * 10 + digit(text[n])
    IN
    IF last < first THEN NaN
    ELSE <<(IF signed /\ text[1] = "-" THEN -1 ELSE 1) * value[last]>>

\* mutant: a declared length of exactly the limit is oversized
isOversizedRequest_AtLimit(request) ==
    LET contentLength == Header(request, "content-length") IN
    IF contentLength # NULL /\ contentLength # <<>>
    THEN LET size == parseInt(contentLength) IN size # NaN /\ size[1] >= MAX_BODY
    ELSE FALSE

\* NaN > 1048576 is false
isOversizedRequest(request) ==
    LET contentLength == Header(request, "content-length") IN
    IF contentLength # NULL /\ contentLength # <<>>
    THEN LET size == parseInt(contentLength) IN size # NaN /\ size[1] > MAX_BODY
    ELSE FALSE

\* the responses of the filter; context.next() hands the request to the origin
Blocked(status, text) == [status |-> status, body |-> text]
NextHandler == [status |-> 0, body |-> "context.next()"]

ADMIN_PREFIX == <<"/", "api", "/", "admin", "/">>

\* mutant: the extension rule is tried before the size rule
security_ExtensionFirst(request) ==
    LET pathname == request.path
        search == request.search
        userAgent == Header(request, "user-agent")
        method == ToUpperCase(request.method)
        isAdminPath == StartsWith(pathname, ADMIN_PREFIX)
        allowedMethods == IF isAdminPath
                          THEN {"GET", "HEAD", "OPTIONS", "POST", "PUT", "DELETE"}
                          ELSE {"GET", "HEAD", "OPTIONS", "POST"}
        isAllowedPost ==
            \/ Len(pathname) >= 4 /\ SubSeq(pathname, 1, 3) = <<"/", "api", "/">>
                  /\ BeginsExact(pathname[4], "send-email")
            \/ StartsWith(pathname, ADMIN_PREFIX)
            \/ StartsWith(pathname, <<"/", ".netlify", "/", "functions", "/">>)
    IN
    IF isBlockedExtension(pathname) THEN Blocked(404, "Not Found")
    ELSE IF isOversizedRequest(request) THEN Blocked(413, "Payload Too Large")
    ELSE IF isBlockedPath(pathname) THEN Blocked(404, "Not Found")
    ELSE IF hasSuspiciousQuery(search) THEN Blocked(400, "Bad Request")
    ELSE IF hasSuspiciousHeaders(request) THEN Blocked(400, "Bad Request")
    ELSE IF /\ isSuspiciousUserAgent(userAgent)
            /\ userAgent # NULL /\ userAgent # <<>>
            /\ \E i \in DOMAIN userAgent : LowerPiece(userAgent[i]) \in MaliciousAgents
    THEN Blocked(403, "Forbidden")
    ELSE IF method \notin allowedMethods THEN Blocked(405, "Method Not Allowed")
    ELSE IF method = "POST" /\ ~isAllowedPost THEN Blocked(405, "Method Not Allowed")
    ELSE NextHandler

\* the default export of security.ts
security(request) ==
    LET pathname == request.path
        search == request.search
        userAgent == Header(request, "user-agent")
        method == ToUpperCase(request.method)
        isAdminPath == StartsWith(pathname, ADMIN_PREFIX)
        allowedMethods == IF isAdminPath
                          THEN {"GET", "HEAD", "OPTIONS", "POST", "PUT", "DELETE"}
                          ELSE {"GET", "HEAD", "OPTIONS", "POST"}
        isAllowedPost ==
            \/ Len(pathname) >= 4 /\ SubSeq(pathname, 1, 3) = <<"/", "api", "/">>
                  /\ BeginsExact(pathname[4], "send-email")
            \/ StartsWith(pathname, ADMIN_PREFIX)
            \/ StartsWith(pathname, <<"/", ".netlify", "/", "functions", "/">>)
    IN
    IF isOversizedRequest(request) THEN Blocked(413, "Payload Too Large")
    ELSE IF isBlockedExtension(pathname) THEN Blocked(404, "Not Found")
    ELSE IF isBlockedPath(pathname) THEN Blocked(404, "Not Found")
    ELSE IF hasSuspiciousQuery(search) THEN Blocked(400, "Bad Request")
    ELSE IF hasSuspiciousHeaders(request) THEN Blocked(400, "Bad Request")
    ELSE IF /\ isSuspiciousUserAgent(userAgent)
            /\ userAgent # NULL /\ userAgent # <<>>
            /\ \E i \in DOMAIN userAgent : LowerPiece(userAgent[i]) \in MaliciousAgents
    THEN Blocked(403, "Forbidden")
    ELSE IF method \notin allowedMethods THEN Blocked(405, "Method Not Allowed")
    ELSE IF method = "POST" /\ ~isAllowedPost THEN Blocked(405, "Method Not Allowed")
    ELSE NextHandler

\* config.excludedPath: the filter does not run on /.netlify/*
Excluded(pathname) == StartsWith(pathname, <<"/", ".netlify", "/">>)

\* the requests of the model
Methods == {"GET", "HEAD", "OPTIONS", "POST", "PUT", "DELETE", "PATCH", "post"}
Paths ==
    {<<"/">>,
     <<"/", "index", ".html">>,
     <<"/", "api", "/", "send-email">>,
     <<"/", "api", "/", "admin", "/", "clients">>,
     <<"/", "api", "/", "admin">>,
     <<"/", ".netlify", "/", "functions", "/", "send-email">>,
     <<"/", "index", ".PHP">>,
     <<"/", "wp-administrator", "/", "setup", ".php">>,
     <<"/", "WP-Login">>,
     <<"/", "api", "/", "admin", "/", "backup", ".sql">>,
     <<"/", "db", ".json">>,
     <<"/", ".well-known", "/", "acme-challenge", "/", "token">>}
\* url.search is percent-encoded: a blank arrives as %20, < as %3C
Searches ==
    {<<>>,
     <<"?", "id=", "1">>,
     <<"?", "q=", "union", "%20", "select">>,
     <<"?", "file=", "../", "etc/shadow">>}
UserAgents == {NULL, <<>>, <<"Mozilla">>, <<"Nmap">>, <<"Mozilla", "SQLMap">>}
ContentLengths ==
    {NULL, <<"1", "2">>, <<"a", "b", "c">>,
     <<"1", "0", "4", "8", "5", "7", "6">>,
     <<"1", "0", "4", "8", "5", "7", "7">>,
     <<"1", "0", "4", "8", "5", "7", "7", "a", "b">>,
     <<"1", "e", "7">>,
     <<"-", "2", "0", "9", "7", "1", "5", "2">>}
ExtraHeaders == {{}, {"x-original-url"}}

\* the headers of a request, absent ones left out
Headers(ua, cl, extra) ==
    [h \in {n \in {"user-agent"} : ua # NULL} \cup {n \in {"content-length"} : cl # NULL}
           \cup extra |->
        IF h = "user-agent" THEN ua
        ELSE IF h = "content-length" THEN cl
        ELSE <<"x">>]

EdgeRequest(method, path, search, headers) ==
    [method |-> method, path |-> path, search |-> search, headers |-> headers]

\* A request arrives at the edge: the filter runs unless the path is excluded.
\* The filter keeps no state, so a behaviour follows one request.
Edge(r) ==
    /\ req' = r
    /\ resp' = IF Excluded(r.path) THEN NextHandler ELSE security(r)
    /\ UNCHANGED <<gallery, now, ticks, otp_codes, otp_seq, admin_sessions, sess_seq, outbox,
                   issued, redeemed, clients, client_seq, inquiries, inquiry_seq,
                   inquiries_ddl, procs>>

NextEdge ==
    /\ req = NoReq
    /\ \E m \in Methods, p \in Paths, s \in Searches, ua \in UserAgents,
          cl \in ContentLengths, x \in ExtraHeaders :
           Edge(EdgeRequest(m, p, s, Headers(ua, cl, x)))

SpecEdge == Init /\ [][NextEdge]_vars

-----------------------------------------------------------------------------
(* The portfolio gallery, js/gallery.js, run by the visitor's browser.  An   *)
(* item of data/portfolio-images.json is [src, thumbnail, instagram], each a *)
(* string given as the sequence of its pieces, <<>> when absent.  Indices    *)
(* are the script's (from 0); cells[k + 1] is the cell with data-index k.    *)

CONCURRENT_REQUESTS == 6
PLACEHOLDER_THUMB == <<"data:image/svg+xml", "Thumbnail unavailable">>
SKELETON_PLACEHOLDER == <<"data:image/svg+xml", "shimmer">>

\* s && s.trim() !== ""
HasText(s) == s # <<>> /\ Trim(s) # <<>>

\* the files the site may serve as data/portfolio-images.json
Portfolios ==
    LET Post(u) == [src |-> <<>>, thumbnail |-> <<>>, instagram |-> <<u>>]
        Direct == [src |-> <<"a.jpg">>, thumbnail |-> <<>>, instagram |-> <<>>]
        Thumbed == [src |-> <<"b.jpg">>, thumbnail |-> <<"b-small.jpg">>,
                    instagram |-> <<"ig9">>]
        Empty == [src |-> <<" ">>, thumbnail |-> <<>>, instagram |-> <<>>]
    IN {<<>>,
        <<Empty>>,
        <<Direct, [Post("ig2") EXCEPT !.src = <<" ">>]>>,
        <<Post("ig1"), Post("ig2"), Post("ig3"), Empty, Post("ig4"), Post("ig5"),
          Post("ig1"), Thumbed, Post("ig2"), Post("ig6")>>}

\* fetchInstagramImage with the cache as the call finds it, its request settled
\* as outcome: with an image URL ("ok"), with a body that has none, with an HTTP
\* error, or by throwing (no request on a cache hit)
fetchInstagramImage(imageCache, instagramUrl, outcome) ==
    LET imageUrl == <<"/.netlify/images?url=">> \o instagramUrl IN
    IF instagramUrl \in imageCache THEN imageUrl
    ELSE IF outcome = "ok" THEN imageUrl
    ELSE PLACEHOLDER_THUMB

\* resolveImageUrl
resolveImageUrl(imageCache, item, outcome) ==
    IF HasText(item.src)
    THEN [src |-> item.src,
          thumbnail |-> IF item.thumbnail # <<>> THEN item.thumbnail ELSE item.src,
          instagramUrl |-> item.instagram]
    ELSE IF HasText(item.instagram)
    THEN LET imageUrl == fetchInstagramImage(imageCache, item.instagram, outcome) IN
         [src |-> imageUrl, thumbnail |-> imageUrl, instagramUrl |-> item.instagram]
    ELSE <<>>

\* mutant: a cell whose image is the fallback thumbnail is left as it is
updatePlaceholderWithImage_NoFallback(G, index, resolved) ==
    IF resolved = <<>> \/ resolved.thumbnail = PLACEHOLDER_THUMB THEN G
    ELSE [G EXCEPT !.cells[index + 1] = resolved.thumbnail,
                   !.totalLoaded = @ + 1,
                   !.counter = <<"Showing", G.totalLoaded + 1, "of", Len(G.items)>>]

\* updatePlaceholderWithImage: the cell gets the image, totalLoaded++
updatePlaceholderWithImage(G, index, resolved) ==
    IF index + 1 \notin DOMAIN G.cells \/ resolved = <<>> THEN G
    ELSE [G EXCEPT !.cells[index + 1] = resolved.thumbnail,
                   !.totalLoaded = @ + 1,
                   !.counter = <<"Showing", G.totalLoaded + 1, "of", Len(G.items)>>]

\* mutant: every item that is left is taken at once
Chunk_Rest(G) == {k \in 0..(Len(G.items) - 1) : k >= G.i}

\* items.slice(i, i + CONCURRENT_REQUESTS), as indices
Chunk(G) == {k \in G.i..(G.i + CONCURRENT_REQUESTS - 1) : k < Len(G.items)}

server == <<now, ticks, otp_codes, otp_seq, admin_sessions, sess_seq, outbox,
            issued, redeemed, clients, client_seq, inquiries, inquiry_seq,
            inquiries_ddl, req, resp, procs>>

\* the script runs: loadPortfolioData shows the indicator and asks for the file
OpenPage(data) ==
    /\ gallery.pc = "closed"
    /\ gallery' = [gallery EXCEPT !.pc = "fetching", !.data = data, !.loading = TRUE]
    /\ UNCHANGED server

\* loadPortfolioData once its request settled: the items are filtered, the grid
\* of placeholders is made and loadImagesIntoPlaceholders is called
loadPortfolioData(outcome) ==
    /\ gallery.pc = "fetching"
    /\ gallery' =
          IF outcome # "ok"
          THEN [gallery EXCEPT !.pc = "failed", !.loading = FALSE,
                               !.counter = <<"Unable to load portfolio images">>]
          ELSE LET Kept(item) == HasText(item.src) \/ HasText(item.instagram)
                   items == SelectSeq(gallery.data, Kept)
               IN [gallery EXCEPT
                      !.pc = "chunk", !.items = items, !.i = 0,
                      !.cells = [k \in DOMAIN items |-> SKELETON_PLACEHOLDER],
                      !.counter = <<"Loading", 0, "of", Len(items)>>,
                      !.loading = TRUE]
    /\ UNCHANGED server

\* the cells of the chunk that need no request are filled, in their order
RECURSIVE FillAll(_, _)
FillAll(G, K) ==
    IF K = {} THEN G
    ELSE LET k == CHOOSE x \in K : \A y \in K : x <= y IN
         FillAll(updatePlaceholderWithImage(
                     G, k, resolveImageUrl(G.imageCache, G.items[k + 1], "ok")),
                 K \ {k})

\* one turn of the loop of loadImagesIntoPlaceholders: the requests of the
\* chunk start (an item without src whose post is not cached sends one), or,
\* the items exhausted, the loader finishes
loadImagesIntoPlaceholders ==
    /\ gallery.pc = "chunk"
    /\ gallery' =
          IF gallery.i < Len(gallery.items)
          THEN LET sent == {k \in Chunk(gallery) :
                              /\ ~HasText(gallery.items[k + 1].src)
                              /\ gallery.items[k + 1].instagram \notin gallery.imageCache}
               IN [FillAll(gallery, Chunk(gallery) \ sent) EXCEPT
                      !.pc = "await", !.inFlight = sent]
          ELSE [gallery EXCEPT !.pc = "done", !.loading = FALSE,
                               !.btn = [disabled |-> TRUE, textContent |-> "All loaded"]]
    /\ UNCHANGED server

\* the request of item k settles and its cell is updated; the call read the
\* cache before it sent the request, and missed
Settle(k, outcome) ==
    /\ gallery.pc = "await"
    /\ k \in gallery.inFlight
    /\ LET item == gallery.items[k + 1]
           G1 == [gallery EXCEPT
                     !.inFlight = @ \ {k},
                     !.imageCache = IF outcome = "ok" THEN @ \cup {item.instagram} ELSE @]
       IN gallery' = updatePlaceholderWithImage(G1, k, resolveImageUrl({}, item, outcome))
    /\ UNCHANGED server

\* await Promise.all(chunkPromises) returns; i += CONCURRENT_REQUESTS
NextChunk ==
    /\ gallery.pc = "await"
    /\ gallery.inFlight = {}
    /\ gallery' = [gallery EXCEPT !.pc = "chunk", !.i = @ + CONCURRENT_REQUESTS]
    /\ UNCHANGED server

NextGallery ==
    \/ \E data \in Portfolios : OpenPage(data)
    \/ \E outcome \in {"ok", "notOk", "throws"} : loadPortfolioData(outcome)
    \/ loadImagesIntoPlaceholders
    \/ \E k \in gallery.inFlight, outcome \in {"ok", "noImageUrl", "notOk", "throws"} :
          Settle(k, outcome)
    \/ NextChunk

SpecGallery == Init /\ [][NextGallery]_vars

\* every request settles and the browser runs every continuation that is ready
SpecGalleryLive == Init /\ [][NextGallery]_vars /\ WF_vars(NextGallery)

-----------------------------------------------------------------------------
(* Properties.  A request is judged by what the handler makes of it in the  *)
(* current store; what was served last is read from req and resp.           *)


\* every outcome of a verify request in the current store, the store reliable
VerifyOutcomes(e, c) ==
    {handler(Cur, VerifyReq(e, c), [Quiet EXCEPT !.token = t, !.pick = row]) :
        t \in Tokens, row \in Picks(VerifyReq(e, c))}

AdminLower == ToLowerCase(ADMIN_EMAIL)
RedeemedIds == {x.id : x \in BagToSet(redeemed)}
RedeemedCodes == {x.code : x \in BagToSet(redeemed)}
Rejected401(S) ==
    /\ S.resp.status = 401
    /\ S.sess = admin_sessions
    /\ S.sseq = sess_seq

\* C1 as stated: once a verify request returned a token for a code value, every
\* later verify request with the same email and code value fails, so no code
\* value ever earns a second token.
C1_ValueAcceptedOnce ==
    \A c \in Codes :
        BagCardinality([x \in {y \in BagToSet(redeemed) : y.code = c} |->
                           CopiesIn(x, redeemed)]) <= 1

\* C1 amended: no stored code row earns a second token, and a verify request
\* presenting an already accepted email and code value fails with 401 and creates
\* no session unless another stored row of the same value, not yet accepted, is
\* unused and unexpired.
C1_RowAcceptedOnce ==
    /\ \A x \in BagToSet(redeemed) : CopiesIn(x, redeemed) = 1
    /\ \A e \in AdminEmails, c \in RedeemedCodes :
          (~\E r \in otp_codes :
                /\ r.code = c
                /\ r.id \notin RedeemedIds
                /\ ~r.used
                /\ r.expires_at > now)
          => \A S \in VerifyOutcomes(e, c) : Rejected401(S)

\* a replay was served: the code's row is stored and unexpired, its token was
\* returned before, and the same email and code now got 401
C1_Witness ==
    /\ req.path = OTP_VERIFY
    /\ isAdminEmail(req.body.email, ADMIN_EMAIL)
    /\ resp.status = 401
    /\ \E r \in otp_codes :
          /\ r.code = req.body.code
          /\ r.id \in RedeemedIds
          /\ r.expires_at > now

\* C3: a verify request is never accepted by a code at or after the code's
\* expiry (issue time + 10 minutes): when every unused stored row of the presented
\* email and code value is that old, the request fails with 401 and creates no
\* session, whether or not the rows were purged; and a row that is accepted is
\* younger than 10 minutes.
C3_ExpiredCodeRejected ==
    \A e \in AdminEmails, c \in Codes :
        \A S \in VerifyOutcomes(e, c) :
            /\ (\A r \in otp_codes :
                    (r.email = ToLowerCase(e) /\ r.code = c /\ ~r.used)
                        => now >= r.created_at + OTP_TTL)
                => Rejected401(S)
            /\ \A x \in BagToSet(S.red) :
                    CopiesIn(x, S.red) > CopiesIn(x, redeemed)
                        => \E r \in otp_codes : r.id = x.id /\ now < r.created_at + OTP_TTL

\* a verify request with the right email and code was refused at the very
\* instant the code expired, the unused row still being stored
C3_Witness ==
    /\ req.path = OTP_VERIFY
    /\ isAdminEmail(req.body.email, ADMIN_EMAIL)
    /\ resp.status = 401
    /\ \E r \in otp_codes :
          /\ r.code = req.body.code
          /\ r.email = ToLowerCase(req.body.email)
          /\ ~r.used
          /\ now = r.created_at + OTP_TTL

\* whether a request with Authorization header h passes checkAuth now
Authenticates(h) ==
    handler(Cur, Request("GET", CLIENTS, h, <<>>), Quiet).resp.status # 401

\* C5: a bearer token authenticates a request iff a session row with exactly
\* that token exists and now < its issuance time + 24 hours; no step changes the
\* expiry of a stored session.
C5_SessionFixedTtl ==
    /\ [](\A h \in AuthHeaders :
            Authenticates(h) <=>
                /\ StartsWithBearer(h)
                /\ \E s \in admin_sessions :
                      /\ s.token = ReplaceBearer(h)
                      /\ now < s.created_at + SESSION_TTL)
    /\ [][\A s \in admin_sessions, n \in admin_sessions' : s.id = n.id => s = n]_vars

\* a request carrying the token of a stored session got 401 at the very instant
\* the session turned 24 hours old
C5_Witness ==
    /\ req.path = CLIENTS
    /\ resp.status = 401
    /\ StartsWithBearer(req.auth)
    /\ \E s \in admin_sessions :
          /\ s.token = ReplaceBearer(req.auth)
          /\ now = s.created_at + SESSION_TTL

\* the store a logout request with header h leaves, started from store S
AfterLogout(S, h) == handler(S, LogoutReq(h), Quiet)

\* C7: logout with a token deletes exactly the session row holding the token:
\* the token no longer authenticates, every other session row and every OTP code
\* is unchanged, and a second logout with the token changes nothing more.
C7_LogoutDeletesOneSession ==
    \A t \in Tokens :
        LET h == <<BEARER>> \o t
            S == AfterLogout(Cur, h)
        IN /\ S.sess = {s \in admin_sessions : s.token # t}
           /\ Cardinality(admin_sessions \ S.sess) <= 1
           /\ ~checkAuth(S, h, Quiet)
           /\ S.otp = otp_codes
           /\ S.resp = jsonResponse([success |-> TRUE], 200)
           /\ LET T == AfterLogout(S, h)
              IN T.sess = S.sess /\ T.otp = S.otp /\ T.resp = S.resp

\* a logout was served that removed one of two live sessions and left the other
C7_Witness ==
    /\ req.path = OTP_LOGOUT
    /\ StartsWithBearer(req.auth)
    /\ sess_seq = 2
    /\ ticks = 0
    /\ Cardinality(admin_sessions) = 1
    /\ \A s \in admin_sessions : s.token # ReplaceBearer(req.auth)

\* C9: every stored OTP code and every stored session carries the lower-cased
\* admin email, and a request-code or verify call with another email stores no
\* code, dispatches no mail and creates no session.
C9_OnlyAdminEmail ==
    /\ \A r \in otp_codes : r.email = AdminLower
    /\ \A s \in admin_sessions : s.email = AdminLower
    /\ \A e \in OtherEmails, c \in Codes, m \in MailOutcomes :
          LET S == handler(Cur, SendReq(e), [Quiet EXCEPT !.code = c, !.mail = m])
          IN S.otp = otp_codes /\ S.oseq = otp_seq /\ S.mail = {} /\ S.sess = admin_sessions
    /\ \A e \in OtherEmails, c \in Codes :
          \A S \in VerifyOutcomes(e, c) :
              S.otp = otp_codes /\ S.sess = admin_sessions /\ S.sseq = sess_seq /\ S.mail = {}

\* a request-code call for another email was served while a code of the admin
\* is stored: nothing was mailed, and the same code does not verify for that email
C9_Witness ==
    /\ req.path = OTP_SEND
    /\ req.body.email \in OtherEmails
    /\ outbox = {}
    /\ otp_codes # {}
    /\ admin_sessions # {}

\* whether header h carries the token of a session that is valid now
CarriesValidSession(h) ==
    /\ StartsWithBearer(h)
    /\ \E s \in admin_sessions : s.token = ReplaceBearer(h) /\ now < s.expires_at

\* C6: every CRUD request without a currently valid session token is answered
\* 401 with the clients and inquiries tables (and all other rows) unchanged, no
\* route handler having run; the same holds of every other request to the API
\* that is not a POST to one of the three OTP routes; and the CRUD request last
\* served without a valid session got 401.
C6_CrudNeedsSession ==
    /\ \A c \in CrudCalls \cup {x \in OtherCalls : x[1] # "OPTIONS"}, h \in AuthHeaders :
          ~CarriesValidSession(h) =>
              LET S == handler(Cur, Request(c[1], c[2], h, c[3]), Quiet) IN
              /\ S.resp = errorResponse("Unauthorized", 401)
              /\ S.cl = clients /\ S.cseq = client_seq
              /\ S.inq = inquiries /\ S.iseq = inquiry_seq
              /\ S.sess = admin_sessions /\ S.otp = otp_codes
    /\ \A c \in CrudCalls, h \in AuthHeaders :
          CarriesValidSession(h) =>
              handler(Cur, Request(c[1], c[2], h, c[3]), Quiet).resp.status # 401
    /\ (resp.status \in {200, 201} /\ req.path \in {CLIENTS, INQUIRIES, INQUIRIES_LINK}
            /\ req.method # "OPTIONS")
          => StartsWithBearer(req.auth)
             /\ \E s \in admin_sessions : s.token = ReplaceBearer(req.auth)

\* a request to delete a stored client was refused with 401 because the session
\* of its token had expired, an inquiry being on file
C6_Witness ==
    /\ req.method = "DELETE"
    /\ req.path = CLIENTS
    /\ resp.status = 401
    /\ \E c \in clients : c.id = req.body.id
    /\ inquiries # {}
    /\ StartsWithBearer(req.auth)
    /\ \E s \in admin_sessions :
          s.token = ReplaceBearer(req.auth) /\ now >= s.expires_at

\* codes stored for the admin email in the trailing 15 minutes
IssuedRecently ==
    BagCardinality([t \in {u \in BagToSet(issued) : u > now - RATE_WINDOW} |->
                       CopiesIn(t, issued)])

\* C4: whenever 5 or more codes were issued to the admin email in the trailing
\* 15 minutes, the next request-code call for it is rejected with 429 and
\* issues no code.
C4_RateLimit ==
    IssuedRecently >= RATE_MAX
        => \A e \in AdminEmails, c \in Codes, m \in MailOutcomes :
              LET S == handler(Cur, SendReq(e), [Quiet EXCEPT !.code = c, !.mail = m])
              IN S.resp.status = 429 /\ S.oseq = otp_seq

\* C8: a POST to the logout route is answered {success: true}, whatever token
\* it carries and also when a store operation fails while it is served.
C8_LogoutAlwaysSucceeds ==
    (req.method = "POST" /\ req.path = OTP_LOGOUT)
        => resp = jsonResponse([success |-> TRUE], 200)

\* C10: two request-code calls that differ only in the email, one the admin
\* address and one not, get the same status and body (here with the mail API
\* accepting the mail).
C10_SameAnswerForAnyEmail ==
    \A a \in AdminEmails, o \in OtherEmails, c \in Codes :
        handler(Cur, SendReq(a), [Quiet EXCEPT !.code = c]).resp
            = handler(Cur, SendReq(o), [Quiet EXCEPT !.code = c]).resp

\* C2: of the concurrent verify requests that present the same valid code at
\* most one returns a session token, and at most one session row is created
\* for the code.
C2_SingleUseConcurrent ==
    /\ BagCardinality(redeemed) = Cardinality(BagToSet(redeemed))
    /\ sess_seq <= Cardinality(RedeemedIds)

\* C11: a verify request with a non-admin email and a verify request with the
\* admin email and a wrong, used or expired code get the same status (401) and
\* the same error message.
C11_VerifyFailuresAlike ==
    \A o \in OtherEmails, a \in AdminEmails, c \in Codes :
        \A S1 \in VerifyOutcomes(o, c), S2 \in VerifyOutcomes(a, c) :
            /\ S1.resp.status = 401
            /\ S2.resp.status # 200 => S2.resp = S1.resp

-----------------------------------------------------------------------------
(* The edge filter: the request read is req, the filter's decision on it is *)
(* Decision, whether or not the deployment excludes the path.               *)

IsEdgeRequest == "search" \in DOMAIN req
Decision == security(req)

\* the user-agent names a tool of the known-malicious subset
MaliciousAgent(ua) ==
    ua # NULL /\ \E i \in DOMAIN ua : LowerPiece(ua[i]) \in MaliciousAgents

\* path p lies under the prefix, given by its pieces
Under(p, prefix) == Len(p) >= Len(prefix) /\ \A i \in DOMAIN prefix : p[i] = prefix[i]

\* the methods a path admits, and whether a POST to it is allowlisted
MethodAllowed(m, p) ==
    \/ m \in {"GET", "HEAD", "OPTIONS", "POST"}
    \/ m \in {"PUT", "DELETE"} /\ Under(p, <<"/", "api", "/", "admin", "/">>)
PostAllowed(p) ==
    \/ Under(p, <<"/", "api", "/">>) /\ Len(p) >= 4 /\ BeginsExact(p[4], "send-email")
    \/ Under(p, <<"/", "api", "/", "admin", "/">>)
    \/ Under(p, <<"/", ".netlify", "/", "functions", "/">>)

\* the rules in their fixed order: whether rule i matches req, and its outcome
Hit(i) ==
    CASE i = 1 -> isOversizedRequest(req)
      [] i = 2 -> isBlockedExtension(req.path)
      [] i = 3 -> isBlockedPath(req.path)
      [] i = 4 -> hasSuspiciousQuery(req.search)
      [] i = 5 -> hasSuspiciousHeaders(req)
      [] i = 6 -> MaliciousAgent(Header(req, "user-agent"))
      [] i = 7 -> ~MethodAllowed(ToUpperCase(req.method), req.path)
      [] i = 8 -> ToUpperCase(req.method) = "POST" /\ ~PostAllowed(req.path)
Outcome == <<413, 404, 404, 400, 400, 403, 405, 405>>
Hits == {i \in DOMAIN Outcome : Hit(i)}
FirstHit(hits) == CHOOSE i \in hits : \A j \in hits : i <= j

\* C12: the filter's decision is the outcome of the first rule that matches, in
\* the order oversized body (413), blocked extension (404), blocked path (404),
\* suspicious query (400), suspicious header (400), known-malicious user-agent
\* (403), method not allowed (405), POST to a path not allowlisted (405), and
\* the request is forwarded when none matches; later matches change nothing.
C12_FirstMatchWins ==
    IsEdgeRequest =>
        LET hits == Hits IN
        /\ hits = {} => Decision = NextHandler
        /\ hits # {} => Decision.status = Outcome[FirstHit(hits)]
        /\ ~Excluded(req.path) => resp = Decision

\* the filter ran on a request that an earlier and a later rule of different
\* outcomes both match, and answered with the earlier one's
C12_Witness ==
    /\ IsEdgeRequest
    /\ ~Excluded(req.path)
    /\ Hits = {1, 2, 4, 5, 6, 7}
    /\ resp.status = Outcome[1]

\* C13 as stated: a request whose lower-cased path ends in a blocked extension
\* gets 404 whatever its method, query, headers, user-agent and content-length.
C13_BlockedExtensionAlways404 ==
    (IsEdgeRequest /\ LowerPiece(req.path[Len(req.path)]) \in BLOCKED_EXTENSIONS)
        => Decision.status = 404

\* C13 amended: a request whose lower-cased path ends in a blocked extension
\* gets 404 whatever its method, query, headers and user-agent, unless its
\* declared content-length exceeds 1 MiB, and then it gets 413.
C13_BlockedExtension404 ==
    (IsEdgeRequest /\ LowerPiece(req.path[Len(req.path)]) \in BLOCKED_EXTENSIONS)
        => Decision.status = IF isOversizedRequest(req) THEN 413 ELSE 404

\* the filter answered 404 to a request for an upper-case blocked extension
\* that no path pattern matches, sent with an unusual method, a suspicious
\* query and header and a scanner's user-agent
C13_Witness ==
    /\ IsEdgeRequest
    /\ req.path = <<"/", "index", ".PHP">>
    /\ req.method = "PATCH"
    /\ hasSuspiciousQuery(req.search)
    /\ hasSuspiciousHeaders(req)
    /\ MaliciousAgent(Header(req, "user-agent"))
    /\ resp.status = 404

\* req passes the rules before the user-agent rule
PassesRules1to5 ==
    /\ IsEdgeRequest
    /\ \A i \in 1..5 : ~Hit(i)

C15_MethodRules ==
    (IsEdgeRequest /\ \A i \in 1..6 : ~Hit(i)) =>
        LET m == ToUpperCase(req.method)
            admin == Under(req.path, <<"/", "api", "/", "admin", "/">>)
            refused ==
                \/ admin /\ m \notin {"GET", "HEAD", "OPTIONS", "POST", "PUT", "DELETE"}
                \/ ~admin /\ m \notin {"GET", "HEAD", "OPTIONS", "POST"}
                \/ m = "POST" /\ ~PostAllowed(req.path)
        IN Decision = IF refused THEN Blocked(405, "Method Not Allowed") ELSE NextHandler

\* the filter refused a POST to /api/admin, which is not under /api/admin/
C15_Witness ==
    /\ IsEdgeRequest
    /\ req.path = <<"/", "api", "/", "admin">>
    /\ ToUpperCase(req.method) = "POST"
    /\ resp = Blocked(405, "Method Not Allowed")

-----------------------------------------------------------------------------
(* The contact form: the submission read is req; Resubmit(in) is what the   *)
(* handler makes of it under the behaviour in of the mail API and the store.*)

IsContact ==
    /\ req.path = SEND_EMAIL
    /\ req.method = "POST"
    /\ "SyntaxError" \notin DOMAIN req.body
ContactInputs ==
    {[Quiet EXCEPT !.mail = m, !.confirm = k, !.fail = f] :
        m \in ContactMailOutcomes, k \in {"ok", "throws"}, f \in {"none", "s1", "s2"}}
Resubmit(in) == sendEmail(Cur, req, in)
NothingDone(S) == S.mail = {} /\ S.inq = inquiries /\ S.iseq = inquiry_seq
Notification == [to |-> CONTACT_EMAIL, code |-> "inquiry"]

\* the website field holds something; it holds something other than blanks
HoneypotFilled == Field(req.body, "website") # <<>>
HoneypotNonBlank ==
    \E i \in DOMAIN Field(req.body, "website") : ~Blank(Field(req.body, "website")[i])
\* the name or the message matches a spam pattern
SpamTripped ==
    \/ containsSpamPatterns(Field(req.body, "name"))
    \/ containsSpamPatterns(Field(req.body, "message"))
\* text of the form local@domain.tld: no blank, one @, a dot inside what follows it
WellFormedEmail(t) ==
    \E i \in DOMAIN t, k \in DOMAIN t :
        /\ t[i] = "@" /\ t[k] = "."
        /\ 1 < i /\ i + 1 < k /\ k < Len(t)
        /\ \A j \in DOMAIN t : ~Blank(t[j]) /\ (t[j] = "@" => j = i)
\* the fields pass the checks made before the spam check
FieldsValid ==
    /\ \A f \in {"name", "email", "message"} : Trim(Field(req.body, f)) # <<>>
    /\ WellFormedEmail(Trim(Field(req.body, "email")))
    /\ isValidName(Trim(Field(req.body, "name")))
\* the submission gets as far as the notification mail
ReachesSend == ~HoneypotNonBlank /\ FieldsValid /\ ~SpamTripped

C18_StoredOnlyAfterSend ==
    IsContact =>
        /\ \A in \in ContactInputs :
              LET S == Resubmit(in) IN
              /\ S.inq # inquiries =>
                    in.mail = "ok" /\ Notification \in S.mail /\ S.resp = Sent
              /\ (ReachesSend /\ in.mail # "ok") =>
                    /\ S.resp.status = 500
                    /\ "error" \in DOMAIN S.resp.body
                    /\ NothingDone(S)
        /\ inquiries # {} => Notification \in outbox /\ resp = Sent
        /\ (ReachesSend /\ resp # Sent) => resp.status = 500 /\ inquiries = {}

\* a submission in order met a mail API that refused the notification: it
\* was answered 500 and no inquiry was stored
C18_Witness ==
    /\ IsContact
    /\ ReachesSend
    /\ resp = errorResponse("Failed to send email. Please try again later.", 500)
    /\ outbox = {}
    /\ inquiries = {}

\* C19: once the notification mail was accepted the handler answers 200
\* success, whether or not the confirmation mail and the inquiry insert fail.
C19_SecondaryFailuresSwallowed ==
    IsContact =>
        /\ \A in \in ContactInputs :
              LET S == Resubmit(in) IN
              /\ Notification \in S.mail => S.resp = Sent
              /\ (ReachesSend /\ in.mail = "ok") => Notification \in S.mail
              /\ (ReachesSend /\ in.mail = "ok" /\ in.fail # "none") => S.inq = inquiries
        /\ Notification \in outbox => resp = Sent

\* the notification went out, the confirmation mail and the insert both
\* failed, and the answer was still 200 success
C19_Witness ==
    /\ IsContact
    /\ outbox = {Notification}
    /\ inquiries = {}
    /\ resp = Sent

-----------------------------------------------------------------------------
\* C20: deleting a client deletes no inquiry and clears the client reference
\* of every inquiry linked to it, whichever handler created the inquiries
\* table.
C20_DeleteClearsReferences ==
    \A c \in clients :
        LET S == deleteClient(initializeDatabase(Cur), [id |-> c.id], Quiet) IN
        /\ S.resp.status = 200
        /\ S.cl = clients \ {c}
        /\ {q.id : q \in S.inq} = {q.id : q \in inquiries}
        /\ \A q \in S.inq : q.client_id # c.id
        /\ \A q \in inquiries : q.client_id # c.id => q \in S.inq

-----------------------------------------------------------------------------
\* C21: in every state reached through contact submissions, client create,
\* update and delete, and inquiry link, every inquiry is unlinked or references
\* a client that exists.
C21_NoDanglingReference ==
    \A q \in inquiries : q.client_id = 0 \/ \E c \in clients : c.id = q.client_id

-----------------------------------------------------------------------------
\* the statuses the specification lists for a client
ClientStatuses == {"lead", "active", "completed", "archived"}

\* C22: in every state reached through the create and update operations of
\* the admin API, every stored client has a status in {lead, active, completed,
\* archived}.
C22_StatusIsClosedEnum == \A c \in clients : c.status \in ClientStatuses

-----------------------------------------------------------------------------
\* the bodies sent to /api/admin/clients
ClientBodies == {c[3] : c \in {x \in CrmCalls : x[2] = CLIENTS /\ x[1] \in {"POST", "PUT"}}}
PutBodies == {c[3] : c \in {x \in CrmCalls : x[2] = CLIENTS /\ x[1] = "PUT"}}
StoreFaults == {Quiet, [Quiet EXCEPT !.fail = "s1"]}
ClientsRequest(method) ==
    /\ req.method = method
    /\ req.path = CLIENTS
    /\ CarriesValidSession(req.auth)

\* C23: every stored client has a non-empty name; a create request without a
\* name is answered 400 and stores nothing; an update request that would set the
\* name of a client to empty is answered with an error and leaves the clients
\* unchanged.
C23_NameRequired ==
    /\ \A c \in clients : c.name # ""
    /\ \A body \in ClientBodies, in \in StoreFaults :
          Get(body, "name") = "" =>
              LET S == createClient(Cur, body, in) IN
              /\ S.resp = errorResponse("Name is required", 400)
              /\ S.cl = clients /\ S.cseq = client_seq
    /\ \A c \in clients, body \in PutBodies, in \in StoreFaults :
          LET S == updateClient(Cur, [id |-> c.id, name |-> ""] @@ body, in) IN
          /\ S.resp.status \in {404, 500}
          /\ S.cl = clients
    /\ (ClientsRequest("POST") /\ Get(req.body, "name") = "") => resp.status = 400
    /\ (ClientsRequest("PUT") /\ "name" \in DOMAIN req.body /\ req.body["name"] = ""
            /\ GetInt(req.body, "id") # 0)
          => resp.status \in {404, 500}

C23_Witness ==
    /\ ClientsRequest("PUT")
    /\ "name" \in DOMAIN req.body /\ req.body["name"] = ""
    /\ \E c \in clients : c.id = GetInt(req.body, "id")
    /\ resp = errorResponse("Failed to update client", 500)

-----------------------------------------------------------------------------
\* the updatable columns a body names
Updatable(body) == {f \in DOMAIN body : \E i \in DOMAIN ClientFields : ClientFields[i] = f}

-----------------------------------------------------------------------------
\* the declared content-length of req, and the integer it parses to, if any
Declared == Header(req, "content-length")
DeclaresMoreThan(limit) ==
    /\ Declared # NULL
    /\ parseInt(Declared) # NaN
    /\ parseInt(Declared)[1] > limit

\* C24: a request is answered 413 iff it declares a content-length that parses
\* to an integer strictly greater than 1048576; a declared length of exactly
\* 1048576, a missing header or a value with no leading number is not rejected
\* by this rule; the 413 is given whatever other rule the request matches.
C24_OversizedRule ==
    IsEdgeRequest =>
        /\ Decision.status = 413 <=> DeclaresMoreThan(1048576)
        /\ DeclaresMoreThan(1048576) => Decision = Blocked(413, "Payload Too Large")
        /\ Declared = <<"1", "0", "4", "8", "5", "7", "7">> => Decision.status = 413
        /\ Declared \in {NULL, <<"1", "0", "4", "8", "5", "7", "6">>, <<"a", "b", "c">>}
              => /\ ~isOversizedRequest(req)
                 /\ Decision.status # 413
        /\ resp.status = 413 <=> (DeclaresMoreThan(1048576) /\ ~Excluded(req.path))

\* the filter answered 413 to a request that declares 1048577 bytes and also
\* asks for a blocked extension with a scanner's user-agent
C24_Witness ==
    /\ IsEdgeRequest
    /\ resp.status = 413
    /\ Declared = <<"1", "0", "4", "8", "5", "7", "7">>
    /\ isBlockedExtension(req.path)
    /\ MaliciousAgent(Header(req, "user-agent"))

-----------------------------------------------------------------------------
\* C26: a verify request that returns no session token, whatever the reason
\* (wrong email, wrong, used or expired code, a store error at any step), leaves
\* the OTP codes and the sessions unchanged; so a stored code is marked used
\* only when a session was created for it.
C26_FailedVerifyChangesNothing ==
    /\ \A r \in otp_codes : r.used => r.id \in RedeemedIds
    /\ \A e \in Emails, c \in Codes, t \in Tokens, f \in FailPoints :
          LET S == handler(Cur, VerifyReq(e, c), [Quiet EXCEPT !.token = t, !.fail = f]) IN
          S.resp.status # 200 => S.otp = otp_codes /\ S.sess = admin_sessions

-----------------------------------------------------------------------------
\* the stored codes of S that are unused and unexpired, and the tokens no
\* session of S holds
Outstanding(S) == {r \in S.otp : ~r.used /\ r.expires_at > S.now}
FreshTokens(S) == {t \in Tokens : ~TokenTaken(S.sess, t)}
Redeem(S, e, r, t) ==
    handler(S, VerifyReq(e, r.code), [Quiet EXCEPT !.token = t, !.pick = r])

\* C27: every stored code of the admin that is unused and unexpired is accepted
\* by verify, whichever codes were issued after it; and after it was accepted
\* every other such code is still accepted.
C27_EarlierCodesStayRedeemable ==
    \A e \in AdminEmails, r \in Outstanding(Cur), t \in FreshTokens(Cur) :
        LET S == Redeem(Cur, e, r, t) IN
        /\ S.resp.status = 200
        /\ Outstanding(S) \subseteq Outstanding(Cur)
        /\ Cardinality(Outstanding(S)) = Cardinality(Outstanding(Cur)) - 1
        /\ \A q \in Outstanding(Cur) : q.code # r.code => q \in Outstanding(S)
        /\ \A q \in Outstanding(S), u \in FreshTokens(S) :
              Redeem(S, e, q, u).resp.status = 200

\* a verify request with the older of two outstanding codes returned a token,
\* and the newer code is still outstanding
C27_Witness ==
    /\ req.path = OTP_VERIFY
    /\ resp.status = 200
    /\ \E r \in otp_codes, q \in Outstanding(Cur) :
          /\ r.used /\ r.code = req.body.code
          /\ q.code # r.code
          /\ q.created_at > r.created_at

-----------------------------------------------------------------------------
\* the codes stored for the admin that the rate limit counts now
Counted(S) == CountRecent(DeleteExpiredOtps(S.otp, S.now), AdminLower, S.now)
DispatchFailures == {"unconfigured", "rejected"}

\* C28: a request-code call for the admin email that is not rate-limited and
\* whose mail is not dispatched (configuration missing, or the mail API rejects
\* the send) is answered 500 and has stored its code: the code is accepted by
\* verify, and it is counted by the rate limit of the calls that follow.
C28_CodeStoredBeforeDispatch ==
    /\ \A e \in AdminEmails, c \in Codes, m \in DispatchFailures :
          LET S == handler(Cur, SendReq(e), [Quiet EXCEPT !.code = c, !.mail = m]) IN
          IF Counted(Cur) >= RATE_MAX
          THEN S.resp.status = 429 /\ S.oseq = otp_seq
          ELSE /\ S.resp.status = 500
               /\ S.mail = {}
               /\ S.oseq = otp_seq + 1
               /\ \E r \in Outstanding(S) :
                     /\ r.id = S.oseq /\ r.code = c /\ r.created_at = now
                     /\ \A t \in FreshTokens(S) : Redeem(S, e, r, t).resp.status = 200
               /\ Counted(S) = Counted(Cur) + 1
               /\ Counted(S) = RATE_MAX
                     => handler(S, SendReq(e), Quiet).resp.status = 429
    /\ (req.path = OTP_SEND /\ resp.status = 500)
          => /\ outbox = {}
             /\ \E r \in Outstanding(Cur) : r.id = otp_seq /\ r.created_at = now

\* a request-code call failed at the dispatch and its code is the fifth of the
\* window: the next call will be refused
C28_Witness ==
    /\ req.path = OTP_SEND
    /\ resp = errorResponse("Failed to send verification email", 500)
    /\ outbox = {}
    /\ Counted(Cur) = RATE_MAX
    /\ handler(Cur, SendReq("ADMIN@site.com"), Quiet).resp.status = 429

-----------------------------------------------------------------------------
\* the cells that hold an image, and the loader finished
Filled == {k \in 0..(Len(gallery.cells) - 1) : gallery.cells[k + 1] # SKELETON_PLACEHOLDER}
AllLoaded ==
    /\ gallery.pc = "done"
    /\ ~gallery.loading
    /\ gallery.btn = [disabled |-> TRUE, textContent |-> "All loaded"]
    /\ Filled = 0..(Len(gallery.items) - 1)
    /\ gallery.totalLoaded = Len(gallery.items)

\* C25: at every moment at most 6 image requests are in flight; the requests
\* in flight belong to one batch, and every item of the batches before it has
\* settled; the loaded count never decreases and never exceeds the number of
\* items.
C25_SequentialBatches ==
    /\ [](/\ Cardinality(gallery.inFlight) <= 6
          /\ \A k \in gallery.inFlight :
                /\ gallery.i <= k /\ k < gallery.i + 6
                /\ gallery.i % 6 = 0
                /\ \A j \in 0..(gallery.i - 1) : j \in Filled
          /\ gallery.totalLoaded <= Len(gallery.items)
          /\ gallery.totalLoaded = Cardinality(Filled))
    /\ [][gallery'.totalLoaded >= gallery.totalLoaded]_vars

\* requests of the second batch are in flight, every cell of the first batch
\* filled, one of them with the fallback thumbnail
C25_Witness ==
    /\ gallery.i = 6
    /\ gallery.inFlight # {}
    /\ gallery.totalLoaded >= 6
    /\ \E k \in 0..5 : gallery.cells[k + 1] = PLACEHOLDER_THUMB

-----------------------------------------------------------------------------
\* C29 as stated: when every image request settles, the loader eventually
\* hides the loading indicator and marks the button "All loaded", every cell
\* filled and the loaded count equal to the number of items.
C29_LoadingAlwaysCompletes == <>AllLoaded

\* C29 amended: once the portfolio file was loaded, and every image request
\* settles, the loader eventually hides the loading indicator and marks the
\* button "All loaded"; from then on every cell is filled, the cell of an item
\* whose request failed with the fallback thumbnail, and the loaded count equals
\* the number of items.  When the file cannot be loaded the indicator is hidden
\* and the button is never marked.
C29_CompletesOnceDataLoaded ==
    /\ (gallery.pc \in {"chunk", "await"}) ~> AllLoaded
    /\ []((gallery.pc = "done" \/ gallery.btn.textContent = "All loaded") => AllLoaded)
    /\ [](\A k \in Filled :
            LET item == gallery.items[k + 1] IN
            gallery.cells[k + 1] \in
                {resolveImageUrl({}, item, "ok").thumbnail, PLACEHOLDER_THUMB})
    /\ [](gallery.pc = "failed" => ~gallery.loading /\ gallery.items = <<>>)
    /\ [][gallery.pc \in {"done", "failed"} => gallery' = gallery]_vars

\* the loader finished a portfolio of more than one batch, a cell of each batch
\* holding the fallback thumbnail
C29_Witness ==
    /\ AllLoaded
    /\ Len(gallery.items) > 6
    /\ \E k \in 0..5 : gallery.cells[k + 1] = PLACEHOLDER_THUMB
    /\ \E k \in 6..(Len(gallery.items) - 1) : gallery.cells[k + 1] = PLACEHOLDER_THUMB

=============================================================================
